---- MODULE Spec2Model ----
(***************************************************************************)
(* QuantEngine statistical core (TypeScript) as a state machine.           *)
(*                                                                         *)
(* Every JavaScript `number` is modelled as a binary floating-point value  *)
(* m * 2^e with a Precision-bit mantissa, rounded to nearest (ties to      *)
(* even) after every arithmetic operation, with the NaN and +/-Infinity    *)
(* values of IEEE-754.  The code runs on binary64 (53 bits); the model     *)
(* keeps the format and the rounding rule and shortens the mantissa.       *)
(* Signed zero and subnormals are not modelled.                            *)
(*                                                                         *)
(* The statements of a function body are operators of their own where a    *)
(* value is used by several later statements: the value is then computed   *)
(* once and passed on as a parameter.                                      *)
(***************************************************************************)
EXTENDS Integers, Sequences, FiniteSets, TLC

\* Mantissa width of the modelled floating-point format.
Precision == 13

\* Largest and smallest binary exponent of a finite non-zero value.
MaxExp == 1023
MinExp == -1074

TwoP == 2 ^ Precision
HalfP == 2 ^ (Precision - 1)

-----------------------------------------------------------------------------
(* Floating-point values *)

Fin(m, e) == [k |-> "fin", m |-> m, e |-> e]
Zero == [k |-> "fin", m |-> 0, e |-> 0]
NaN == [k |-> "nan", m |-> 0, e |-> 0]
PosInf == [k |-> "inf", m |-> 1, e |-> 100000]
NegInf == [k |-> "inf", m |-> -1, e |-> 100000]

IsNaN(x) == x.k = "nan"
IsFinite(x) == x.k = "fin"
Sign(x) == IF x.m > 0 THEN 1 ELSE IF x.m < 0 THEN -1 ELSE 0
InfOf(s) == IF s >= 0 THEN PosInf ELSE NegInf
AbsInt(i) == IF i < 0 THEN -i ELSE i

\* Number of bits of a natural number below 2^31.
BitLen(x) ==
  IF x < 32768
    THEN IF x < 128
      THEN IF x < 8
        THEN IF x < 2
          THEN IF x < 1
            THEN 0
            ELSE 1
          ELSE IF x < 4
            THEN 2
            ELSE 3
        ELSE IF x < 32
          THEN IF x < 16
            THEN 4
            ELSE 5
          ELSE IF x < 64
            THEN 6
            ELSE 7
      ELSE IF x < 2048
        THEN IF x < 512
          THEN IF x < 256
            THEN 8
            ELSE 9
          ELSE IF x < 1024
            THEN 10
            ELSE 11
        ELSE IF x < 8192
          THEN IF x < 4096
            THEN 12
            ELSE 13
          ELSE IF x < 16384
            THEN 14
            ELSE 15
    ELSE IF x < 8388608
      THEN IF x < 524288
        THEN IF x < 131072
          THEN IF x < 65536
            THEN 16
            ELSE 17
          ELSE IF x < 262144
            THEN 18
            ELSE 19
        ELSE IF x < 2097152
          THEN IF x < 1048576
            THEN 20
            ELSE 21
          ELSE IF x < 4194304
            THEN 22
            ELSE 23
      ELSE IF x < 134217728
        THEN IF x < 33554432
          THEN IF x < 16777216
            THEN 24
            ELSE 25
          ELSE IF x < 67108864
            THEN 26
            ELSE 27
        ELSE IF x < 536870912
          THEN IF x < 268435456
            THEN 28
            ELSE 29
          ELSE IF x < 1073741824
            THEN 30
            ELSE 31

\* The value m * 2^e of a Precision-bit mantissa m, overflowing to Infinity
\* and underflowing to 0.
Finite(m, e) ==
  IF e + Precision - 1 > MaxExp THEN InfOf(m)
  ELSE IF e + Precision - 1 < MinExp THEN Zero
  ELSE [k |-> "fin", m |-> m, e |-> e]

\* The same for a mantissa that rounding may have carried to 2^Precision.
Carried(s, q, e) == IF q = TwoP THEN Finite(s * HalfP, e + 1) ELSE Finite(s * q, e)

\* a / d rounded to an integer, half to even.
HalfEven(a, d) ==
  (a \div d) + (IF 2 * (a % d) > d \/ (2 * (a % d) = d /\ (a \div d) % 2 = 1) THEN 1 ELSE 0)

\* m * 2^e, whose mantissa is sh bits longer than Precision.
Shifted(m, e, sh) ==
  IF sh <= 0 THEN Finite(m * (2 ^ (-sh)), e + sh)
  ELSE Carried(IF m < 0 THEN -1 ELSE 1, HalfEven(AbsInt(m), 2 ^ sh), e + sh)

\* The floating-point value nearest to the integer-scaled real m * 2^e
\* (round half to even), overflowing to Infinity and underflowing to 0.
Round(m, e) == IF m = 0 THEN Zero ELSE Shifted(m, e, BitLen(AbsInt(m)) - Precision)

FromInt(i) == Round(i, 0)
One == [k |-> "fin", m |-> HalfP, e |-> 1 - Precision]
Two == [k |-> "fin", m |-> HalfP, e |-> 2 - Precision]
Half == [k |-> "fin", m |-> HalfP, e |-> -Precision]

Neg(x) == IF IsNaN(x) THEN NaN ELSE [x EXCEPT !.m = -x.m]
Abs(x) == IF IsNaN(x) THEN NaN ELSE [x EXCEPT !.m = AbsInt(x.m)]

\* x + y for finite non-zero x and y with x.e >= y.e
AddAligned(hi, lo) ==
  IF hi.e - lo.e > Precision + 2 THEN hi
  ELSE Round(hi.m * (2 ^ (hi.e - lo.e)) + lo.m, lo.e)

AddFin(x, y) ==
  IF x.m = 0 THEN y
  ELSE IF y.m = 0 THEN x
  ELSE IF x.e >= y.e THEN AddAligned(x, y) ELSE AddAligned(y, x)

Add(x, y) ==
  IF IsNaN(x) \/ IsNaN(y) THEN NaN
  ELSE IF x.k = "inf" THEN (IF y.k = "inf" /\ y.m # x.m THEN NaN ELSE x)
  ELSE IF y.k = "inf" THEN y
  ELSE AddFin(x, y)

Sub(x, y) == Add(x, Neg(y))

Mul(x, y) ==
  IF IsNaN(x) \/ IsNaN(y) THEN NaN
  ELSE IF x.k = "inf" \/ y.k = "inf"
       THEN (IF x.m = 0 \/ y.m = 0 THEN NaN ELSE InfOf(Sign(x) * Sign(y)))
  ELSE Round(x.m * y.m, x.e + y.e)

\* a / b for naturals a, b > 0, scaled by 2^(Precision + 3), with a sticky
\* last bit.
Quotient(num, b) == 2 * (num \div b) + (IF num % b = 0 THEN 0 ELSE 1)

Div(x, y) ==
  IF IsNaN(x) \/ IsNaN(y) THEN NaN
  ELSE IF x.k = "inf"
       THEN (IF y.k = "inf" THEN NaN ELSE InfOf(IF y.m < 0 THEN -x.m ELSE x.m))
  ELSE IF y.k = "inf" THEN Zero
  ELSE IF y.m = 0 THEN (IF x.m = 0 THEN NaN ELSE InfOf(x.m))
  ELSE IF x.m = 0 THEN Zero
  ELSE Round(Sign(x) * Sign(y) * Quotient(AbsInt(x.m) * (2 ^ (Precision + 2)), AbsInt(y.m)),
             x.e - y.e - Precision - 3)

\* x < y; false whenever an operand is NaN.
Lt(x, y) ==
  IF IsNaN(x) \/ IsNaN(y) THEN FALSE
  ELSE IF x.m < 0 /\ y.m >= 0 THEN TRUE
  ELSE IF x.m >= 0 /\ y.m < 0 THEN FALSE
  ELSE IF x.m = 0 THEN y.m > 0
  ELSE IF y.m = 0 THEN x.m < 0
  ELSE IF x.m > 0 THEN x.e < y.e \/ (x.e = y.e /\ x.m < y.m)
  ELSE x.e > y.e \/ (x.e = y.e /\ x.m < y.m)

Gt(x, y) == Lt(y, x)
\* x === y
Eq(x, y) == ~IsNaN(x) /\ ~IsNaN(y) /\ x = y
Le(x, y) == Lt(x, y) \/ Eq(x, y)
Ge(x, y) == Le(y, x)

\* Math.max / Math.min: NaN if either argument is NaN.
MathMax(x, y) == IF IsNaN(x) \/ IsNaN(y) THEN NaN ELSE IF Lt(x, y) THEN y ELSE x
MathMin(x, y) == IF IsNaN(x) \/ IsNaN(y) THEN NaN ELSE IF Lt(y, x) THEN y ELSE x

\* Math.floor and Math.ceil of a finite value, as integers.
FloorInt(x) ==
  IF x.e >= 0 THEN x.m * (2 ^ x.e)
  ELSE IF -x.e > 30 THEN (IF x.m >= 0 THEN 0 ELSE -1)
  ELSE x.m \div (2 ^ (-x.e))
CeilInt(x) == -FloorInt(Neg(x))

\* One step of Newton's iteration for the square root of n.
ISqrtStep(n, r) == (r + (n \div r)) \div 2
\* Integer square root of 0 < n < 2^30: the iteration from a power of two
\* above the root has arrived after five steps, at the root or one above it.
ISqrtFrom(n, r) == IF r * r > n THEN r - 1 ELSE r
ISqrt(n) ==
  ISqrtFrom(n, ISqrtStep(n, ISqrtStep(n, ISqrtStep(n, ISqrtStep(n, ISqrtStep(n,
                 2 ^ ((BitLen(n) + 1) \div 2)))))))

\* The root r of big = m * 2^s with a sticky last bit, scaled back.
SqrtRounded(big, r, e) == Round(2 * r + (IF r * r = big THEN 0 ELSE 1), e)

\* Math.sqrt, correctly rounded.
Sqrt(x) ==
  IF IsNaN(x) \/ x.m < 0 THEN NaN
  ELSE IF x.k = "inf" THEN PosInf
  ELSE IF x.m = 0 THEN Zero
  ELSE LET s == IF (x.e - Precision) % 2 = 0 THEN Precision ELSE Precision + 1
       IN SqrtRounded(x.m * (2 ^ s), ISqrt(x.m * (2 ^ s)), ((x.e - s) \div 2) - 1)

\* 10^k for 0 <= k <= 18
Pow10F(k) ==
  IF k <= 9 THEN FromInt(10 ^ k) ELSE Mul(FromInt(1000000000), FromInt(10 ^ (k - 9)))
\* The decimal literal m * 10^(-k).
Dec(m, k) == Div(FromInt(m), Pow10F(k))

-----------------------------------------------------------------------------
(* Math.exp, Math.log, Math.sin, Math.pow: library functions, computed here *)
(* by range reduction and a short series.  The series of exp and log are    *)
(* summed in fixed point, in integers scaled by a power of two that is      *)
(* finer than the mantissa, and their sum is rounded once.                  *)

LN2 == Dec(693147181, 9)
PI == Dec(314159265, 8)

\* floor(x * 2^s) for a finite x
ToFixed(x, s) == FloorInt(Fin(x.m, x.e + s))

\* 2^16 * (1 + r + r^2/2 + ... + r^6/720) from R = 2^16 r, R2 = 2^16 r^2 and
\* R3 = 2^16 r^3, the series of exp(r) for |r| <= ln(2)/2.
ExpSum(R, R2, R3) ==
  65536 + R + (R2 \div 2) + (R3 \div 6) + ((R2 * R2) \div (24 * 65536))
    + ((R2 * R3) \div (120 * 65536)) + ((R3 * R3) \div (720 * 65536))

ExpPowers(R, R2) == ExpSum(R, R2, (R2 * R) \div 65536)

ExpSeries(R) == ExpPowers(R, (R * R) \div 65536)

\* exp(x) = 2^n * exp(x - n ln 2) with X = 2^16 x; 2^16 ln 2 = 45426 + 383/4096.
ExpReduced(X, n) == Round(ExpSeries(X - n * 45426 - ((n * 383 + 2048) \div 4096)), n - 16)

\* n is x / ln 2 rounded to an integer.
ExpFixed(X) == ExpReduced(X, (2 * X + 45426) \div 90852)

Exp(x) ==
  IF IsNaN(x) THEN NaN
  ELSE IF x.k = "inf" THEN (IF x.m > 0 THEN PosInf ELSE Zero)
  ELSE IF Lt(FromInt(2000), x) THEN PosInf
  ELSE IF Lt(x, FromInt(-2000)) THEN Zero
  ELSE ExpFixed(ToFixed(x, 16))

\* 2^15 * (1 + z/3 + z^2/5 + z^3/7 + z^4/9) from Z = 2^20 z, for 0 <= z < 1/32.
LnFactor(Z) ==
  32768 + ((Z * (10923 + ((Z * (6554 + ((Z * (4681 + ((Z * 3641) \div 1048576)))
                                       \div 1048576))) \div 1048576))) \div 1048576)

\* 2 * (t + t^3/3 + t^5/5 + t^7/7 + t^9/9), the series of ln((1+t)/(1-t)),
\* for |t| < 3/16.
LnSeries(t) == Round(t.m * LnFactor((ToFixed(t, 15) * ToFixed(t, 15)) \div 1024), t.e - 14)

Ln(x) ==
  IF IsNaN(x) \/ x.m < 0 THEN NaN
  ELSE IF x.k = "inf" THEN PosInf
  ELSE IF x.m = 0 THEN NegInf
  ELSE LET big == 2 * x.m * x.m > TwoP * TwoP
           f == IF big THEN Fin(x.m, -Precision) ELSE Fin(x.m, 1 - Precision)
           n == IF big THEN x.e + Precision ELSE x.e + Precision - 1
       IN Add(Mul(FromInt(n), LN2), LnSeries(Div(Sub(f, One), Add(f, One))))

SinPoly(x, x2) ==
  Mul(x,
    Add(Mul(x2,
      Sub(Mul(x2,
        Add(Mul(x2,
          Sub(Mul(x2, Div(One, FromInt(362880))), Div(One, FromInt(5040)))),
          Div(One, FromInt(120)))),
        Div(One, FromInt(6)))),
      One))

\* Math.sin for |x| <= PI/2.
Sin(x) == IF ~IsFinite(x) THEN NaN ELSE SinPoly(x, Mul(x, x))

\* Math.pow(x, 2)
Sq(x) == Mul(x, x)
\* Math.pow(x, y) for x > 0
Pow(x, y) == Exp(Mul(y, Ln(x)))

-----------------------------------------------------------------------------
(* Arrays of numbers are sequences; JavaScript indexes from 0. *)

\* arr[i]: undefined outside the array, which arithmetic turns into NaN.
At(arr, i) == IF i >= 0 /\ i < Len(arr) THEN arr[i + 1] ELSE NaN

\* The element of a set of one element: The({e : x \in {v}}) is e with x
\* standing for the value of v.
The(S) == CHOOSE x \in S : TRUE

\* for (i = lo; i <= hi; i++) acc = Op(acc, i): the second half of the passes
\* starts from what the first half has left.
RECURSIVE FoldIdx(_, _, _, _)
FoldIdx(Op(_, _), acc, lo, hi) ==
  IF lo > hi THEN acc
  ELSE IF lo = hi THEN Op(acc, lo)
  ELSE The({FoldIdx(Op, left, ((lo + hi) \div 2) + 1, hi) :
              left \in {FoldIdx(Op, acc, lo, (lo + hi) \div 2)}})

\* arr.reduce((sum, x) => sum + x, 0)
SumSeq(arr) == FoldIdx(LAMBDA acc, i : Add(acc, arr[i]), Zero, 1, Len(arr))
\* arr.reduce((sum, x) => sum + Math.pow(x - c, 2), 0)
SumSqDev(arr, c) == FoldIdx(LAMBDA acc, i : Add(acc, Sq(Sub(arr[i], c))), Zero, 1, Len(arr))

\* Number of elements of the ascending sequence srt that are <= x.
RECURSIVE UpperBound(_, _, _, _)
UpperBound(srt, x, lo, hi) ==
  IF lo >= hi THEN lo
  ELSE IF Lt(x, srt[((lo + hi) \div 2) + 1]) THEN UpperBound(srt, x, lo, (lo + hi) \div 2)
  ELSE UpperBound(srt, x, ((lo + hi) \div 2) + 1, hi)

InsertAt(srt, x, pos) == SubSeq(srt, 1, pos) \o <<x>> \o SubSeq(srt, pos + 1, Len(srt))
InsertSorted(srt, x) == InsertAt(srt, x, UpperBound(srt, x, 0, Len(srt)))

\* The array that arr.sort((a, b) => a - b) leaves behind (finite elements).
SortAsc(arr) == FoldIdx(LAMBDA acc, i : InsertSorted(acc, arr[i]), <<>>, 1, Len(arr))

-----------------------------------------------------------------------------
(* utils/math.ts *)

ErfA1 == Dec(254829592, 9)
ErfA2 == Dec(-284496736, 9)
ErfA3 == Dec(1421413741, 9)
ErfA4 == Dec(-1453152027, 9)
ErfA5 == Dec(1061405429, 9)
ErfP == Dec(3275911, 7)

\* sign * (1 - (((((a5 t + a4) t) + a3) t + a2) t + a1) t exp(-x x)) with
\* x = |x0| and t = 1 / (1 + p x).
erf(x0) ==
  The({ Mul(IF Ge(x0, Zero) THEN One ELSE Neg(One),
            Sub(One,
                Mul(Mul(Add(Mul(Add(Mul(Add(Mul(Add(Mul(ErfA5, t), ErfA4), t), ErfA3), t),
                                    ErfA2), t), ErfA1), t),
                    Exp(Neg(Mul(Abs(x0), Abs(x0)))))))
        : t \in {Div(One, Add(One, Mul(ErfP, Abs(x0))))} })

Sqrt2 == Sqrt(Two)

normCDF(x) == Mul(Half, Add(One, erf(Div(x, Sqrt2))))

\* const a = 0.147
ErfInvA == Dec(147, 3)

\* sign * Math.sqrt(Math.sqrt(term1 * term1 - term2) - term1)
erfInvFrom(sign, term1, term2) ==
  Mul(sign, Sqrt(Sub(Sqrt(Sub(Mul(term1, term1), term2)), term1)))

\* term1 and term2 from ln1mx2
erfInvTerms(sign, ln1mx2) ==
  erfInvFrom(sign, Add(Div(Two, Mul(PI, ErfInvA)), Div(ln1mx2, Two)), Div(ln1mx2, ErfInvA))

\* A variant whose test takes in the end points: x <= -1 || x >= 1.
erfInvOutsideClosed(x) == Le(x, FromInt(-1)) \/ Ge(x, One)
\* x < -1 || x > 1
erfInvOutside(x) == Lt(x, FromInt(-1)) \/ Gt(x, One)

erfInv(x) ==
  IF erfInvOutside(x) THEN NaN
  ELSE IF Eq(x, Zero) THEN Zero
  ELSE IF Eq(x, One) THEN PosInf
  ELSE IF Eq(x, FromInt(-1)) THEN NegInf
  ELSE The({ erfInvTerms(IF Lt(x, Zero) THEN FromInt(-1) ELSE One,
                         Ln(Sub(One, Mul(ax, ax))))
             : ax \in {Abs(x)} })

normInv(p) ==
  IF Le(p, Zero) \/ Ge(p, One) THEN NaN
  ELSE Mul(Sqrt2, erfInv(Sub(Mul(Two, p), One)))

\* c * z * ... * z with k factors z, multiplied from the left.
TimesPower(c, z, k) == FoldIdx(LAMBDA acc, i : Mul(acc, z), c, 1, k)

\* g1 / df + g2 / (df * df) + g3 / (df * df * df)
tInvCorrection(g1, g2, g3, df) ==
  Add(Add(Div(g1, df), Div(g2, Mul(df, df))), Div(g3, Mul(Mul(df, df), df)))

\* z + correction, with g1, g2 and g3 of the Hill and Davis approximation.
tInvCorrected(z, df) ==
  Add(z,
      tInvCorrection(
        Div(Add(TimesPower(z, z, 2), z), FromInt(4)),
        Div(Add(Add(TimesPower(FromInt(5), z, 5), TimesPower(FromInt(16), z, 3)),
                Mul(FromInt(3), z)),
            FromInt(96)),
        Div(Sub(Add(Add(TimesPower(FromInt(3), z, 7), TimesPower(FromInt(19), z, 5)),
                    TimesPower(FromInt(17), z, 3)),
                Mul(FromInt(15), z)),
            FromInt(384)),
        df))

\* The degrees of freedom above which tInv returns normInv(p).
TInvNormalDf == 100

\* tInv(p, df): the value returned, and whether it is that of the statement
\* return normInv(p).
tInv(p, df) ==
  IF Le(p, Zero) \/ Ge(p, One) THEN [value |-> NaN, delegated |-> FALSE]
  ELSE IF Le(df, Zero) THEN [value |-> NaN, delegated |-> FALSE]
  ELSE IF Gt(df, FromInt(TInvNormalDf)) THEN [value |-> normInv(p), delegated |-> TRUE]
  ELSE The({ [value |-> tInvCorrected(z, df), delegated |-> FALSE] : z \in {normInv(p)} })

LanczosG == 7
LanczosCoef ==
  << Dec(1000000000, 9), Dec(676520368, 6), Dec(-1259139217, 6), Dec(771323429, 6),
     Dec(-176615029, 6), Dec(125073433, 7), Dec(-138571095, 9), Dec(998436958, 14),
     Dec(150563274, 15) >>
LogSqrt2Pi == Ln(Sqrt(Mul(Two, PI)))

\* logGamma for x0 >= 0.5 (the Lanczos sum): x = x0 - 1, a the sum of the
\* coefficients, t = x + g + 0.5.
logGammaLanczos(x0) ==
  The({ The({ Sub(Add(Add(LogSqrt2Pi, Ln(a)), Mul(Add(x, Half), Ln(t))), t)
              : a \in {FoldIdx(LAMBDA acc, i :
                                 Add(acc, Div(LanczosCoef[i + 1], Add(x, FromInt(i)))),
                               LanczosCoef[1], 1, LanczosG + 1)},
                t \in {Add(Add(x, FromInt(LanczosG)), Half)} })
        : x \in {Sub(x0, One)} })

logGamma(x) ==
  IF Le(x, Zero) THEN NaN
  ELSE IF Lt(x, Half)
       THEN Sub(Ln(Div(PI, Sin(Mul(PI, x)))), logGammaLanczos(Sub(One, x)))
  ELSE logGammaLanczos(x)

gamma(x) == Exp(logGamma(x))

BetaMaxIt == 100
BetaEps == Dec(3, 7)

\* The second half of a pass of betaInc's loop, from aa2 and the first
\* half's f, c and d.
betaIncSecond(f1, c1, d1, aa2) ==
  The({ [f |-> Mul(f1, Mul(d2, c2)), c |-> c2, d |-> d2,
         done |-> Lt(Abs(Sub(Mul(d2, c2), One)), BetaEps)]
        : d2 \in {Div(One, Add(One, Mul(aa2, d1)))}, c2 \in {Add(One, Div(aa2, c1))} })

\* The first half of a pass, from aa.
betaIncFirst(acc, aa, aa2) ==
  The({ betaIncSecond(Mul(acc.f, Mul(d1, c1)), c1, d1, aa2)
        : d1 \in {Div(One, Add(One, Mul(aa, acc.d)))}, c1 \in {Add(One, Div(aa, acc.c))} })

\* One pass of the continued-fraction loop of betaInc (a pass after the break
\* does nothing); m = i and m2 = 2 * m.
betaIncPass(acc, m, m2, x, a, b) ==
  betaIncFirst(acc,
               Div(Mul(Mul(m, Sub(b, m)), x), Mul(Sub(Add(a, m2), One), Add(a, m2))),
               Div(Mul(Mul(Neg(Add(a, m)), Add(Add(a, b), m)), x),
                   Mul(Add(a, m2), Add(Add(a, m2), One))))

betaIncStep(acc, i, x, a, b) ==
  IF acc.done THEN acc ELSE betaIncPass(acc, FromInt(i), FromInt(2 * i), x, a, b)

\* front * f, with lbeta = logGamma(a) + logGamma(b) - logGamma(a + b).
betaInc(x, a, b) ==
  IF Lt(x, Zero) \/ Gt(x, One) THEN NaN
  ELSE IF Eq(x, Zero) THEN Zero
  ELSE IF Eq(x, One) THEN One
  ELSE Mul(Div(Exp(Sub(Add(Mul(Ln(x), a), Mul(Ln(Sub(One, x)), b)),
                       Sub(Add(logGamma(a), logGamma(b)), logGamma(Add(a, b))))),
               a),
           FoldIdx(LAMBDA acc, i : betaIncStep(acc, i, x, a, b),
                   [f |-> One, c |-> One,
                    d |-> Div(One, Sub(One, Div(Mul(Add(a, b), x), Add(a, One)))),
                    done |-> FALSE],
                   1, BetaMaxIt).f)

chi2CDF(x, df) ==
  IF Lt(x, Zero) \/ Le(df, Zero) THEN NaN
  ELSE IF Eq(x, Zero) THEN Zero
  ELSE betaInc(Div(x, Add(x, df)), Div(x, Two), Div(df, Two))

\* sortedArr[lower] * (1 - weight) + sortedArr[upper] * weight
quantileAt(sortedArr, index, lower, upper) ==
  The({ Add(Mul(At(sortedArr, lower), Sub(One, weight)), Mul(At(sortedArr, upper), weight))
        : weight \in {Sub(index, FromInt(lower))} })

quantile(sortedArr, p) ==
  IF Len(sortedArr) = 0 THEN NaN
  ELSE IF Le(p, Zero) THEN sortedArr[1]
  ELSE IF Ge(p, One) THEN sortedArr[Len(sortedArr)]
  ELSE The({ quantileAt(sortedArr, index, FloorInt(index), CeilInt(index))
             : index \in {Mul(p, FromInt(Len(sortedArr) - 1))} })

-----------------------------------------------------------------------------
(* core/summaryStats.ts *)

\* A variant that sorts the caller's array itself: data.sort((a, b) => a - b).
SortedInPlace(data) == [arg |-> SortAsc(data), sorted |-> SortAsc(data)]
\* const sorted = [...data].sort((a, b) => a - b): the caller's array as the
\* statement leaves it, and the sorted copy.
SortedCopy(data) == [arg |-> data, sorted |-> SortAsc(data)]

\* One pass of Welford's loop over the element x.
welfordStep(acc, x) ==
  The({ The({ [n |-> acc.n + 1, mean |-> mean,
               m2 |-> Add(acc.m2, Mul(delta, Sub(x, mean)))]
              : mean \in {Add(acc.mean, Div(delta, FromInt(acc.n + 1)))} })
        : delta \in {Sub(x, acc.mean)} })

welfordAlgorithm(data) ==
  The({ [mean |-> end.mean,
         variance |-> IF end.n > 1 THEN Div(end.m2, FromInt(end.n - 1)) ELSE Zero,
         m2 |-> end.m2]
        : end \in {FoldIdx(LAMBDA acc, i : welfordStep(acc, data[i]),
                           [n |-> 0, mean |-> Zero, m2 |-> Zero], 1, Len(data))} })

\* A variant that guards the sample size only.
computeSkewnessSizeOnly(data, mean, stdDev) ==
  IF Len(data) < 3 THEN Zero
  ELSE Mul(Div(FoldIdx(LAMBDA acc, i :
                         The({ Add(acc, Mul(Mul(z, z), z))
                               : z \in {Div(Sub(data[i], mean), stdDev)} }),
                       Zero, 1, Len(data)),
               FromInt(Len(data))),
           Div(Sqrt(FromInt(Len(data) * (Len(data) - 1))), FromInt(Len(data) - 2)))

computeSkewness(data, mean, stdDev) ==
  IF Len(data) < 3 \/ Eq(stdDev, Zero) THEN Zero
  ELSE Mul(Div(FoldIdx(LAMBDA acc, i :
                         The({ Add(acc, Mul(Mul(z, z), z))
                               : z \in {Div(Sub(data[i], mean), stdDev)} }),
                       Zero, 1, Len(data)),
               FromInt(Len(data))),
           Div(Sqrt(FromInt(Len(data) * (Len(data) - 1))), FromInt(Len(data) - 2)))

\* correction1 * correction2 for the mean fourth power kurt.
kurtosisCorrected(n, kurt) ==
  Mul(Div(FromInt(n - 1), FromInt((n - 2) * (n - 3))),
      Sub(Mul(FromInt(n + 1), kurt), FromInt(3 * (n - 1))))

computeKurtosis(data, mean, stdDev) ==
  IF Len(data) < 4 \/ Eq(stdDev, Zero) THEN Zero
  ELSE kurtosisCorrected(Len(data),
         Div(FoldIdx(LAMBDA acc, i :
                       The({ Add(acc, Mul(Mul(Mul(z, z), z), z))
                             : z \in {Div(Sub(data[i], mean), stdDev)} }),
                     Zero, 1, Len(data)),
             FromInt(Len(data))))

\* A call's outcome: the value returned or the error thrown, and the
\* caller's array as the call leaves it.
Returned(v, arg) == [threw |-> FALSE, val |-> v, data |-> arg]
Thrown(msg, arg) == [threw |-> TRUE, val |-> [message |-> msg], data |-> arg]

\* A variant that turns the sample of one element away as well: n <= 1.
emptyDataOrSingle(n) == n <= 1
\* if (n === 0)
emptyData(n) == n = 0

\* welford = welfordAlgorithm(data), sc the sorted copy, stdDev and median as
\* the function computes them before it builds the record.
computeSummaryStats(data) ==
  IF emptyData(Len(data)) THEN Thrown("Cannot compute statistics on empty data", data)
  ELSE The({ The({ Returned(
                     [count |-> Len(data),
                      mean |-> welford.mean,
                      variance |-> welford.variance,
                      stdDev |-> stdDev,
                      median |-> median,
                      skewness |-> computeSkewness(sc.arg, welford.mean, stdDev),
                      kurtosis |-> computeKurtosis(sc.arg, welford.mean, stdDev),
                      min |-> sc.sorted[1],
                      max |-> sc.sorted[Len(data)],
                      p5 |-> quantile(sc.sorted, Dec(5, 2)),
                      p25 |-> quantile(sc.sorted, Dec(25, 2)),
                      p50 |-> median,
                      p75 |-> quantile(sc.sorted, Dec(75, 2)),
                      p95 |-> quantile(sc.sorted, Dec(95, 2))],
                     sc.arg)
                   : stdDev \in {Sqrt(welford.variance)},
                     median \in {quantile(sc.sorted, Dec(5, 1))} })
             : welford \in {welfordAlgorithm(data)}, sc \in {SortedCopy(data)} })

computeMedian(sorted) ==
  LET n == Len(sorted)
  IN IF n = 0 THEN NaN
     ELSE IF n % 2 = 1 THEN At(sorted, n \div 2)
     ELSE Div(Add(At(sorted, (n \div 2) - 1), At(sorted, n \div 2)), Two)

\* computeMAD(data, center) with the centre given.
computeMAD(data, c) ==
  Div(FoldIdx(LAMBDA acc, i : Add(acc, Abs(Sub(data[i], c))), Zero, 1, Len(data)),
      FromInt(Len(data)))

-----------------------------------------------------------------------------
(* core/distributions.ts *)

fitNormal(data) ==
  The({ [name |-> "Normal", mu |-> mu,
         sigma |-> Sqrt(Div(SumSqDev(data, mu), FromInt(Len(data))))]
        : mu \in {Div(SumSeq(data), FromInt(Len(data)))} })

fitLaplace(data) ==
  The({ The({ Returned([name |-> "Laplace", mu |-> mu, b |-> computeMAD(sc.arg, mu)], sc.arg)
              : mu \in {computeMedian(sc.sorted)} })
        : sc \in {SortedCopy(data)} })

-----------------------------------------------------------------------------
(* core/tests.ts *)

StatisticalTest(name, statistic, pValue, rejectNull, alpha) ==
  [name |-> name, statistic |-> statistic, pValue |-> pValue,
   rejectNull |-> rejectNull, alpha |-> alpha]

\* The value of a function that returns no result.
Null == [name |-> "null"]

\* Math.max(0, Math.min(1, v))
Clamp01(v) == MathMax(Zero, MathMin(One, v))

jarqueBeraTest(data, skewness, kurtosis, alpha) ==
  The({ The({ StatisticalTest("Jarque-Bera", jb, pValue, Lt(pValue, alpha), alpha)
              : pValue \in {Sub(One, chi2CDF(jb, Two))} })
        : jb \in {Mul(Div(FromInt(Len(data)), FromInt(6)),
                      Add(Sq(skewness), Div(Sq(kurtosis), FromInt(4))))} })

KsMaxTerms == 100
KsTermEps == Dec(1, 10)

\* One pass of the series loop of ksAsymptoticPValue (a pass after the break
\* does nothing).
ksTerm(acc, k, lambda) ==
  IF acc.done THEN acc
  ELSE The({ [sum |-> Add(acc.sum, term), done |-> Lt(Abs(term), KsTermEps)]
             : term \in {Mul(Mul(Two, IF k % 2 = 1 THEN One ELSE Neg(One)),
                             Exp(Mul(Mul(FromInt(-2 * k * k), lambda), lambda)))} })

ksSeries(lambda) ==
  FoldIdx(LAMBDA acc, k : ksTerm(acc, k, lambda), [sum |-> Zero, done |-> FALSE],
          1, KsMaxTerms).sum

ksAsymptoticPValue(d, n) ==
  The({ Clamp01(ksSeries(Mul(Add(Add(sq, Dec(12, 2)), Div(Dec(11, 2), sq)), d)))
        : sq \in {Sqrt(FromInt(n))} })

\* One pass of the loop of kolmogorovSmirnovTest over sorted[i].
\* A variant whose dMinus takes the empirical CDF after the point, (i + 1) / n.
ksStepAfter(acc, i, n, theoreticalCDF) ==
  [dPlus |-> MathMax(acc.dPlus, Sub(Div(FromInt(i + 1), FromInt(n)), theoreticalCDF)),
   dMinus |-> MathMax(acc.dMinus, Sub(theoreticalCDF, Div(FromInt(i + 1), FromInt(n))))]

ksStep(acc, i, n, theoreticalCDF) ==
  [dPlus |-> MathMax(acc.dPlus, Sub(Div(FromInt(i + 1), FromInt(n)), theoreticalCDF)),
   dMinus |-> MathMax(acc.dMinus, Sub(theoreticalCDF, Div(FromInt(i), FromInt(n))))]

\* D = max(dPlus, dMinus) over the sorted sample.
ksStatistic(sorted, mu, sigma) ==
  The({ MathMax(end.dPlus, end.dMinus)
        : end \in {FoldIdx(LAMBDA acc, i :
                             The({ ksStep(acc, i, Len(sorted), theoreticalCDF)
                                   : theoreticalCDF \in
                                       {normCDF(Div(Sub(sorted[i + 1], mu), sigma))} }),
                           [dPlus |-> Zero, dMinus |-> Zero], 0, Len(sorted) - 1)} })

kolmogorovSmirnovTest(data, mu, sigma, alpha) ==
  The({ The({ The({ Returned(StatisticalTest("Kolmogorov-Smirnov", d, pValue,
                                              Lt(pValue, alpha), alpha),
                             sc.arg)
                    : pValue \in {ksAsymptoticPValue(d, Len(data))} })
              : d \in {ksStatistic(sc.sorted, mu, sigma)} })
        : sc \in {SortedCopy(data)} })

AdLogFloor == Dec(1, 10)
AdCriticalValue == Dec(787, 3)

\* The four-branch p-value approximation of andersonDarlingTest, unclamped.
adPValue(a) ==
  IF Lt(a, Dec(2, 1))
  THEN Sub(One, Exp(Sub(Add(Dec(-13436, 3), Mul(Dec(10114, 2), a)),
                        Mul(Mul(Dec(22373, 2), a), a))))
  ELSE IF Lt(a, Dec(34, 2))
  THEN Sub(One, Exp(Sub(Add(Dec(-8318, 3), Mul(Dec(42796, 3), a)),
                        Mul(Mul(Dec(59938, 3), a), a))))
  ELSE IF Lt(a, Dec(6, 1))
  THEN Exp(Sub(Sub(Dec(9177, 4), Mul(Dec(4279, 3), a)), Mul(Mul(Dec(138, 2), a), a)))
  ELSE Exp(Add(Sub(Dec(12937, 4), Mul(Dec(5709, 3), a)), Mul(Mul(Dec(186, 4), a), a)))

\* (2 * (i + 1) - 1) * (log(phi1) + log(phi2)) for phi = normCDF(z).
adTerm(i, phi) ==
  Mul(FromInt(2 * (i + 1) - 1),
      Add(Ln(MathMax(AdLogFloor, MathMin(Sub(One, AdLogFloor), phi))),
          Ln(MathMax(AdLogFloor, MathMin(Sub(One, AdLogFloor), Sub(One, phi))))))

\* a2 * (1 + 0.75 / n + 2.25 / (n * n)) with a2 = -n - sum / n.
adAdjusted(sorted, mu, sigma, nf) ==
  Mul(Sub(Neg(nf),
          Div(FoldIdx(LAMBDA acc, i :
                        The({ Add(acc, adTerm(i, phi))
                              : phi \in {normCDF(Div(Sub(sorted[i + 1], mu), sigma))} }),
                      Zero, 0, Len(sorted) - 1),
              nf)),
      Add(Add(One, Div(Dec(75, 2), nf)), Div(Dec(225, 2), Mul(nf, nf))))

andersonDarlingTest(data, mu, sigma, alpha) ==
  The({ The({ Returned(StatisticalTest("Anderson-Darling", a2Adjusted,
                                        Clamp01(adPValue(a2Adjusted)),
                                        Gt(a2Adjusted, AdCriticalValue), alpha),
                       sc.arg)
              : a2Adjusted \in {adAdjusted(sc.sorted, mu, sigma, FromInt(Len(data)))} })
        : sc \in {SortedCopy(data)} })

SwMinN == 3
SwMaxN == 5000

computeShapiroWilkCoefficient(i, n) == Div(One, Sqrt(FromInt(n)))

\* A variant whose upper limit is exclusive: n >= 5000.
swDeclinesAbove(n) == n < SwMinN \/ n >= SwMaxN
\* The sample sizes for which shapiroWilkTest computes nothing.
swDeclines(n) == n < SwMinN \/ n > SwMaxN

\* W = numerator^2 / ssTotal, the data as the sort has left them.
swStatistic(data, sorted, n) ==
  Div(Sq(FoldIdx(LAMBDA acc, i :
                   Add(acc, Mul(computeShapiroWilkCoefficient(i + 1, n),
                                Sub(At(sorted, n - 1 - i), At(sorted, i)))),
                 Zero, 0, (n \div 2) - 1)),
      SumSqDev(data, Div(SumSeq(data), FromInt(n))))

\* 1 - normCDF(z) with z = (-log(1 - w) - 1) / sqrt(2 / n).
swPValue(w, n) ==
  Sub(One, normCDF(Div(Sub(Neg(Ln(Sub(One, w))), One), Sqrt(Div(Two, FromInt(n))))))

shapiroWilkTest(data, alpha) ==
  IF swDeclines(Len(data)) THEN Returned(Null, data)
  ELSE The({ The({ The({ Returned(StatisticalTest("Shapiro-Wilk", w, Clamp01(pValue),
                                                   Lt(pValue, alpha), alpha),
                                  sc.arg)
                         : pValue \in {swPValue(w, Len(data))} })
                   : w \in {swStatistic(sc.arg, sc.sorted, Len(data))} })
             : sc \in {SortedCopy(data)} })

-----------------------------------------------------------------------------
(* core/tails.ts *)

Confidence95 == Dec(95, 2)
Confidence99 == Dec(99, 2)

\* -quantile(sorted, alpha) with alpha = 1 - confidence
computeVaR(sorted, confidence) == Neg(quantile(sorted, Sub(One, confidence)))

\* The mean of the varIndex smallest values, negated.
cvarBelow(sorted, varIndex) ==
  IF varIndex = 0 THEN Neg(At(sorted, 0))
  ELSE Div(Neg(FoldIdx(LAMBDA acc, i : Add(acc, At(sorted, i)), Zero, 0, varIndex - 1)),
           FromInt(varIndex))

\* const alpha = 1 - confidence; const varIndex = Math.floor(alpha * n)
varIndex(n, confidence) == FloorInt(Mul(Sub(One, confidence), FromInt(n)))

computeCVaR(sorted, confidence) == cvarBelow(sorted, varIndex(Len(sorted), confidence))

IntMax(a, b) == IF a >= b THEN a ELSE b
IntMin(a, b) == IF a <= b THEN a ELSE b

HillFloorK == 20
HillMinK == 5

\* A variant without the cap at 20% of the data.
hillKUncapped(n) ==
  IntMax(IntMax(FloorInt(Sqrt(FromInt(n))), FloorInt(Mul(Dec(5, 2), FromInt(n)))),
         HillFloorK)

\* kActual of computeHillIndex and computeLeftTailIndex for a sample of length n.
hillKActual(n) ==
  IntMin(IntMax(IntMax(FloorInt(Sqrt(FromInt(n))), FloorInt(Mul(Dec(5, 2), FromInt(n)))),
                HillFloorK),
         FloorInt(Mul(FromInt(n), Dec(2, 1))))

\* The Hill estimate over the kActual largest values.
hillOver(sorted, n, kActual) ==
  IF kActual < HillMinK THEN [val |-> NaN, reads |-> {}]
  ELSE The({ [val |-> Div(FoldIdx(LAMBDA acc, i : Add(acc, Ln(Div(At(sorted, i), threshold))),
                                  Zero, n - kActual, n - 1),
                          FromInt(kActual)),
              reads |-> (n - kActual)..(n - 1)]
             : threshold \in {At(sorted, n - kActual)} })

\* The value returned, and the indices of the sample the call has read.
computeHillIndex(sorted) == hillOver(sorted, Len(sorted), hillKActual(Len(sorted)))

\* One pass of the loop of computeLeftTailIndex over val = -sorted[i].
leftTailStep(acc, val, threshold) ==
  IF Gt(val, Zero) THEN Add(acc, Ln(Div(val, threshold))) ELSE acc

\* The estimate over the kActual smallest values.
leftTailOver(sorted, kActual) ==
  IF kActual < HillMinK THEN [val |-> NaN, reads |-> {}]
  ELSE The({ [val |-> Div(FoldIdx(LAMBDA acc, i :
                                    leftTailStep(acc, Neg(At(sorted, i)), threshold),
                                  Zero, 0, kActual - 1),
                          FromInt(kActual)),
              reads |-> 0..(kActual - 1)]
             : threshold \in {Neg(At(sorted, kActual - 1))} })

computeLeftTailIndex(sorted) == leftTailOver(sorted, hillKActual(Len(sorted)))

computeTailMetrics(data) ==
  The({ Returned([var95 |-> computeVaR(sc.sorted, Confidence95),
                  var99 |-> computeVaR(sc.sorted, Confidence99),
                  cvar95 |-> computeCVaR(sc.sorted, Confidence95),
                  cvar99 |-> computeCVaR(sc.sorted, Confidence99),
                  hillIndex |-> computeHillIndex(sc.sorted).val],
                 sc.arg)
        : sc \in {SortedCopy(data)} })

\* cumReturns: 1 followed by the running products of 1 + data[i].
cumulativeReturns(data) ==
  FoldIdx(LAMBDA acc, i : Append(acc, Mul(acc[Len(acc)], Add(One, data[i]))),
          <<One>>, 1, Len(data))

\* The running maximum and its index after the element cur at index i.
runningPeak(acc, cur, i) ==
  IF Gt(cur, acc.runningMax) THEN [runningMax |-> cur, runningMaxIdx |-> i]
  ELSE [runningMax |-> acc.runningMax, runningMaxIdx |-> acc.runningMaxIdx]

\* A variant that records the index of the element as the peak and the index
\* of the running maximum as the trough.
drawdownStepSwapped(acc, cur, i) ==
  The({ The({ IF Gt(ddPercent, acc.maxDDPercent)
              THEN [maxDD |-> Sub(peak.runningMax, cur), maxDDPercent |-> ddPercent,
                    peakIdx |-> i, troughIdx |-> peak.runningMaxIdx,
                    runningMax |-> peak.runningMax, runningMaxIdx |-> peak.runningMaxIdx]
              ELSE [acc EXCEPT !.runningMax = peak.runningMax,
                               !.runningMaxIdx = peak.runningMaxIdx]
              : ddPercent \in {Div(Sub(peak.runningMax, cur), peak.runningMax)} })
        : peak \in {runningPeak(acc, cur, i)} })

\* One pass of the drawdown loop over cur = cumReturns[i].
drawdownStep(acc, cur, i) ==
  The({ The({ IF Gt(ddPercent, acc.maxDDPercent)
              THEN [maxDD |-> Sub(peak.runningMax, cur), maxDDPercent |-> ddPercent,
                    peakIdx |-> peak.runningMaxIdx, troughIdx |-> i,
                    runningMax |-> peak.runningMax, runningMaxIdx |-> peak.runningMaxIdx]
              ELSE [acc EXCEPT !.runningMax = peak.runningMax,
                               !.runningMaxIdx = peak.runningMaxIdx]
              : ddPercent \in {Div(Sub(peak.runningMax, cur), peak.runningMax)} })
        : peak \in {runningPeak(acc, cur, i)} })

\* The drawdown loop over cumReturns[1 .. last].
drawdownLoop(cumReturns, last) ==
  FoldIdx(LAMBDA acc, i : drawdownStep(acc, cumReturns[i + 1], i),
          [maxDD |-> Zero, maxDDPercent |-> Zero, peakIdx |-> 0, troughIdx |-> 0,
           runningMax |-> cumReturns[1], runningMaxIdx |-> 0],
          1, last)

computeMaxDrawdown(data) ==
  IF Len(data) = 0
  THEN [maxDrawdown |-> Zero, maxDrawdownPercent |-> Zero,
        peakIndex |-> -1, troughIndex |-> -1]
  ELSE The({ [maxDrawdown |-> end.maxDD, maxDrawdownPercent |-> end.maxDDPercent,
              peakIndex |-> end.peakIdx, troughIndex |-> end.troughIdx]
             : end \in {drawdownLoop(cumulativeReturns(data), Len(data))} })

-----------------------------------------------------------------------------
(* core/summaryStats.ts: time-series diagnostics *)

DefaultMaxLag == 20
DefaultRollingWindow == 20

ACFPoint(lag, value, confidenceBound) ==
  [lag |-> lag, value |-> value, significant |-> Gt(Abs(value), confidenceBound)]

\* 1.96 / Math.sqrt(n)
ConfidenceBound(n) == Div(Dec(196, 2), Sqrt(FromInt(n)))

\* cov / n for one lag
acfCovariance(data, lag, mean) ==
  Div(FoldIdx(LAMBDA acc, t : Add(acc, Mul(Sub(At(data, t), mean),
                                           Sub(At(data, t - lag), mean))),
              Zero, lag, Len(data) - 1),
      FromInt(Len(data)))

\* The points of computeACF for the mean and the variance it has computed.
acfPoints(data, maxLag, mean, variance, confidenceBound) ==
  [lag \in 1..IntMin(maxLag, Len(data) - 1) |->
     ACFPoint(lag, Div(acfCovariance(data, lag, mean), variance), confidenceBound)]

computeACF(data, maxLag) ==
  The({ acfPoints(data, maxLag, mean, Div(SumSqDev(data, mean), FromInt(Len(data))),
                  ConfidenceBound(Len(data)))
        : mean \in {Div(SumSeq(data), FromInt(Len(data)))} })

\* i is an index of arr
Has(arr, i) == i >= 0 /\ i < Len(arr)

\* The row of phi for lag k, from the previous row and pacfValue.
pacfRow(prev, k, pacfValue) ==
  [j \in 1..k |->
     IF j = k THEN pacfValue
     ELSE Sub(At(prev, j - 1), Mul(pacfValue, At(prev, k - 1 - j)))]

\* numerator / denominator of the Levinson-Durbin pass for lag k.
pacfRatio(prev, k, acfValues) ==
  Div(FoldIdx(LAMBDA a, j : Sub(a, Mul(At(prev, j - 1), acfValues[k - j].value)),
              acfValues[k].value, 1, k - 1),
      FoldIdx(LAMBDA a, j : Sub(a, Mul(At(prev, j - 1), acfValues[j].value)),
              One, 1, k - 1))

\* One pass of the Levinson-Durbin loop of computePACF. Reading .value of a
\* missing point, or indexing a missing row of phi, raises a TypeError.
pacfStep(acc, k, acfValues, confidenceBound) ==
  IF acc.threw THEN acc
  ELSE IF \/ ~Has(acfValues, k - 1)
          \/ ~Has(acc.phi, k - 2)
          \/ \E j \in 1..(k - 1) : ~Has(acfValues, k - 1 - j) \/ ~Has(acfValues, j - 1)
       THEN [acc EXCEPT !.threw = TRUE]
  ELSE The({ [pacf |-> Append(acc.pacf, ACFPoint(k, pacfValue, confidenceBound)),
              phi |-> Append(acc.phi, pacfRow(acc.phi[k - 1], k, pacfValue)),
              threw |-> FALSE]
             : pacfValue \in {pacfRatio(acc.phi[k - 1], k, acfValues)} })

\* A variant whose recursion stops one lag early.
pacfLastLagShort(maxLag, acfLength) == IntMin(maxLag, acfLength) - 1
\* k <= Math.min(maxLag, acfValues.length)
pacfLastLag(maxLag, acfLength) == IntMin(maxLag, acfLength)

\* The loop of computePACF over the points of computeACF.
pacfOver(acfValues, maxLag, confidenceBound) ==
  IF Len(acfValues) = 0 THEN [pacf |-> <<>>, phi |-> <<>>, threw |-> FALSE]
  ELSE FoldIdx(LAMBDA acc, k : pacfStep(acc, k, acfValues, confidenceBound),
               [pacf |-> <<ACFPoint(1, acfValues[1].value, confidenceBound)>>,
                phi |-> << <<acfValues[1].value>> >>,
                threw |-> FALSE],
               2, pacfLastLag(maxLag, Len(acfValues)))

computePACF(data, maxLag) ==
  The({ pacfOver(acfValues, maxLag, confidenceBound)
        : acfValues \in {computeACF(data, maxLag)},
          confidenceBound \in {ConfidenceBound(Len(data))} })

\* data.slice(i - window + 1, i + 1)
rollingSlice(data, window, i) == SubSeq(data, i - window + 2, i + 1)

\* The mean and the standard deviation of one window.
rollingMeanOf(slice, window) == Div(SumSeq(slice), FromInt(window))
rollingStdOf(slice, window) ==
  Sqrt(Div(SumSqDev(slice, rollingMeanOf(slice, window)), FromInt(window)))

computeRollingStats(data, window) ==
  [rollingMean |-> [j \in 1..IntMax(0, Len(data) - window + 1) |->
                      rollingMeanOf(rollingSlice(data, window, j + window - 2), window)],
   rollingStd |-> [j \in 1..IntMax(0, Len(data) - window + 1) |->
                     rollingStdOf(rollingSlice(data, window, j + window - 2), window)]]

computeSquaredReturns(data) == [i \in 1..Len(data) |-> Mul(data[i], data[i])]

\* The residual sum of squares, the standard error and the total sum of
\* squares of the regression, once its slope is known.
olsResiduals(x, y, meanY, denominator, slope) ==
  The({ [slope |-> slope,
         se |-> Sqrt(Div(Div(ssr, FromInt(Len(x) - 1)), denominator)),
         ssr |-> ssr,
         sst |-> SumSqDev(y, meanY)]
        : ssr \in {FoldIdx(LAMBDA acc, i : Add(acc, Sq(Sub(y[i], Mul(slope, x[i])))),
                           Zero, 1, Len(x))} })

\* numerator / denominator
olsRatio(x, y, meanX, meanY, denominator) ==
  Div(FoldIdx(LAMBDA acc, i : Add(acc, Mul(Sub(x[i], meanX), Sub(y[i], meanY))),
              Zero, 1, Len(x)),
      denominator)

\* The OLS regression of y on x shared by fitAR1 and adfTest: slope, its
\* standard error, and the sums of squares.
olsSlope(x, y) ==
  The({ The({ olsResiduals(x, y, meanY, denominator,
                           olsRatio(x, y, meanX, meanY, denominator))
              : denominator \in {SumSqDev(x, meanX)} })
        : meanX \in {Div(SumSeq(x), FromInt(Len(x)))},
          meanY \in {Div(SumSeq(y), FromInt(Len(x)))} })

Ar1MinN == 3

fitAR1(data) ==
  IF Len(data) < Ar1MinN
  THEN [phi |-> NaN, tStat |-> NaN, rSquared |-> NaN, stationary |-> FALSE]
  ELSE The({ [phi |-> ols.slope,
              tStat |-> Div(ols.slope, ols.se),
              rSquared |-> Sub(One, Div(ols.ssr, ols.sst)),
              stationary |-> Lt(Abs(ols.slope), One)]
             : ols \in {olsSlope(SubSeq(data, 1, Len(data) - 1), SubSeq(data, 2, Len(data)))} })

AdfMinN == 4

\* A variant that regresses however short the series is.
adfNeverTooShort(n) == FALSE
\* if (n < 4)
adfTooShort(n) == n < AdfMinN

\* The critical-value table of adfTest.
adfPValue(statistic) ==
  IF Lt(statistic, Dec(-351, 2)) THEN Dec(5, 3)
  ELSE IF Lt(statistic, Dec(-289, 2)) THEN Dec(3, 2)
  ELSE IF Lt(statistic, Dec(-258, 2)) THEN Dec(8, 2)
  ELSE Dec(15, 2)

\* A variant with two classes only.
adfStationarityTwoWay(pValue) ==
  IF Lt(pValue, Dec(5, 2)) THEN "stationary" ELSE "non-stationary"

adfStationarity(pValue) ==
  IF Lt(pValue, Dec(5, 2)) THEN "stationary"
  ELSE IF Lt(pValue, Dec(10, 2)) THEN "marginal"
  ELSE "non-stationary"

\* slope / se of the regression of the differences on the lagged levels.
adfStatistic(data) ==
  The({ Div(ols.slope, ols.se)
        : ols \in {olsSlope(SubSeq(data, 1, Len(data) - 1),
                            [t \in 1..(Len(data) - 1) |-> Sub(data[t + 1], data[t])])} })

adfTest(data) ==
  IF adfTooShort(Len(data))
  THEN [statistic |-> NaN, pValue |-> NaN, stationarity |-> "marginal"]
  ELSE The({ [statistic |-> statistic, pValue |-> adfPValue(statistic),
              stationarity |-> adfStationarity(adfPValue(statistic))]
             : statistic \in {adfStatistic(data)} })

\* The record computeTimeSeriesDiagnostics builds from its parts, or the
\* TypeError that computePACF has raised.
timeSeriesRecord(data, acf, pacf, rolling, ar1, adf) ==
  IF pacf.threw THEN Thrown("TypeError", data)
  ELSE Returned([acf |-> acf, pacf |-> pacf.pacf,
                 rollingMean |-> rolling.rollingMean,
                 rollingStd |-> rolling.rollingStd,
                 squaredReturns |-> computeSquaredReturns(data),
                 ar1Phi |-> ar1.phi, ar1TStat |-> ar1.tStat,
                 ar1RSquared |-> ar1.rSquared, ar1Stationary |-> ar1.stationary,
                 adfStatistic |-> adf.statistic, adfPValue |-> adf.pValue,
                 adfStationarity |-> adf.stationarity],
                data)

computeTimeSeriesDiagnostics(data, maxLag, rollingWindow) ==
  timeSeriesRecord(data, computeACF(data, maxLag), computePACF(data, maxLag),
                   computeRollingStats(data, rollingWindow), fitAR1(data), adfTest(data))

-----------------------------------------------------------------------------
(* utils/math.ts and core/distributions.ts: the Student-t fit *)

\* num / denom of tPDF, which depends on df alone.
tPDFScale(df) ==
  Div(gamma(Div(Add(df, One), Two)), Mul(Sqrt(Mul(df, PI)), gamma(Div(df, Two))))

\* tPDF with num / denom already computed as scale.
tPDFScaled(scale, x, df) ==
  IF Le(df, Zero) THEN NaN
  ELSE Mul(scale, Pow(Add(One, Div(Mul(x, x), df)), Div(Neg(Add(df, One)), Two)))

tPDF(x, df) == tPDFScaled(tPDFScale(df), x, df)

\* resphi = 2 - phi with phi = (1 + sqrt(5)) / 2
Resphi == Sub(Two, Div(Add(One, Sqrt(FromInt(5))), Two))

\* One test of the while loop of goldenSectionSearch and, when it holds, the
\* pass that follows.  g holds the variables of the function and brackets,
\* the brackets <<a, b>> that the loop test has seen so far.
goldenPass(f(_), g, tol) ==
  IF ~Gt(Abs(Sub(g.b, g.a)), tol) THEN g
  ELSE IF Lt(g.f1, g.f2)
  THEN The({ [a |-> g.a, b |-> g.x2, x1 |-> nx1, x2 |-> g.x1, f1 |-> f(nx1), f2 |-> g.f1,
              brackets |-> Append(g.brackets, <<g.a, g.x2>>)]
             : nx1 \in {Add(g.a, Mul(Resphi, Sub(g.x2, g.a)))} })
  ELSE The({ [a |-> g.x1, b |-> g.b, x1 |-> g.x2, x2 |-> nx2, f1 |-> g.f2, f2 |-> f(nx2),
              brackets |-> Append(g.brackets, <<g.x1, g.b>>)]
             : nx2 \in {Sub(g.b, Mul(Resphi, Sub(g.b, g.x1)))} })

\* The most passes of the while loop that a search is followed for.
GoldenMaxPasses == 16

\* The while loop from the variables g on.
goldenLoop(f(_), g, tol) ==
  FoldIdx(LAMBDA acc, i : goldenPass(f, acc, tol), g, 1, GoldenMaxPasses)

\* The search from its entry to its return: the value returned, the brackets
\* of its loop, and whether the loop has ended within GoldenMaxPasses passes.
goldenSearch(f(_), a, b, tol) ==
  The({ [value |-> Div(Add(end.a, end.b), Two), brackets |-> end.brackets,
         returned |-> ~Gt(Abs(Sub(end.b, end.a)), tol)]
        : end \in
            {The({ goldenLoop(f, [a |-> a, b |-> b, x1 |-> x1, x2 |-> x2,
                                  f1 |-> f(x1), f2 |-> f(x2),
                                  brackets |-> << <<a, b>> >>], tol)
                   : x1 \in {Add(a, Mul(Resphi, Sub(b, a)))},
                     x2 \in {Sub(b, Mul(Resphi, Sub(b, a)))} })} })

goldenSectionSearch(f(_), a, b, tol) == goldenSearch(f, a, b, tol).value

\* Math.round
MathRound(x) == FromInt(FloorInt(Add(x, Half)))

NuLower == 2
NuUpper == 50
LogPenalty == Neg(Pow10F(10))

\* One pass of the log-likelihood loop of fitStudentT for the density pdf.
logLikelihoodStep(ll, pdf) == IF Gt(pdf, Zero) THEN Add(ll, Ln(pdf)) ELSE Add(ll, LogPenalty)

\* The objective that fitStudentT minimises over nu.
negLogLikelihood(standardized, nu) ==
  The({ Neg(FoldIdx(LAMBDA ll, i :
                      The({ logLikelihoodStep(ll, pdf)
                            : pdf \in {tPDFScaled(scale, standardized[i], nu)} }),
                    Zero, 1, Len(standardized)))
        : scale \in {tPDFScale(nu)} })

\* A variant that rounds nu to a whole number.
studentTParamsWhole(mu, sigma, nu) ==
  [name |-> "Student-t", mu |-> mu,
   sigma |-> IF Gt(nu, Two) THEN Mul(sigma, Sqrt(Div(Sub(nu, Two), nu))) ELSE sigma,
   nu |-> MathRound(nu)]

\* The record fitStudentT returns for the nu the search has found.
studentTParams(mu, sigma, nu) ==
  [name |-> "Student-t", mu |-> mu,
   sigma |-> IF Gt(nu, Two) THEN Mul(sigma, Sqrt(Div(Sub(nu, Two), nu))) ELSE sigma,
   nu |-> Div(MathRound(Mul(nu, FromInt(10))), FromInt(10))]

\* data.map(x => (x - mu) / sigma)
standardize(data, mu, sigma) == [i \in 1..Len(data) |-> Div(Sub(data[i], mu), sigma)]

\* goldenSectionSearch(logLikelihood, 2, 50, 0.1) with the brackets of its loop.
studentTNuSearch(standardized) ==
  goldenSearch(LAMBDA nu : negLogLikelihood(standardized, nu),
               FromInt(NuLower), FromInt(NuUpper), Dec(1, 1))

\* The search for nu over the standardized sample.
studentTSearch(standardized, mu, sigma) ==
  studentTParams(mu, sigma, studentTNuSearch(standardized).value)

\* fitStudentT once mu and sigma are known.
studentTFrom(data, mu, sigma) == studentTSearch(standardize(data, mu, sigma), mu, sigma)

fitStudentT(data) ==
  The({ studentTFrom(data, mu, Sqrt(Div(SumSqDev(data, mu), FromInt(Len(data)))))
        : mu \in {Div(SumSeq(data), FromInt(Len(data)))} })

-----------------------------------------------------------------------------
(* core/parse.ts.  A text is the sequence of its words, the maximal runs of *)
(* characters between delimiters (white space and commas); a CSV file is    *)
(* the sequence of its lines, each the sequence of its cells.  Words come   *)
(* from a fixed vocabulary, and the regular expression of parseText and     *)
(* parseFloat are tabulated on it.                                          *)

\* The decimal words with one digit after the point, as the number of tenths
\* they denote.
Tenths ==
  "1.2" :> 12 @@ "-0.5" :> -5 @@ "0.3" :> 3 @@ "2.1" :> 21 @@ "-1.0" :> -10 @@
  "0.8" :> 8 @@ "-0.3" :> -3 @@ "1.5" :> 15 @@ "0.2" :> 2 @@ "-0.7" :> -7 @@
  "1.1" :> 11 @@ "0.4" :> 4 @@ "-0.9" :> -9 @@ "1.8" :> 18 @@ "0.1" :> 1 @@
  "-0.4" :> -4 @@ "1.3" :> 13 @@ "0.6" :> 6 @@ "-0.2" :> -2 @@ "0.9" :> 9

Words ==
  {"3", "-1", "0", "abc", "1e999", "...", "Infinity", "-Infinity", "NaN"} \cup DOMAIN Tenths

\* What text.replace(/[^\d\s.,\-+eE\n\r\t]/g, ' ') and the split leave of a word.
Cleaned(word) ==
  CASE word \in {"abc", "NaN", "Infinity"} -> <<>>
    [] word = "-Infinity" -> <<"-">>
    [] OTHER -> <<word>>

\* A variant that stops at the decimal point (parseInt).
ParseInt(token) ==
  CASE token = "3" -> FromInt(3)
    [] token = "-1" -> FromInt(-1)
    [] token = "0" -> Zero
    [] token = "1e999" -> One
    [] token \in DOMAIN Tenths ->
         FromInt(IF Tenths[token] < 0 THEN -((-Tenths[token]) \div 10)
                 ELSE Tenths[token] \div 10)
    [] OTHER -> NaN

\* parseFloat
ParseFloat(token) ==
  CASE token = "3" -> FromInt(3)
    [] token = "-1" -> FromInt(-1)
    [] token = "0" -> Zero
    [] token = "1e999" -> PosInf
    [] token = "Infinity" -> PosInf
    [] token = "-Infinity" -> NegInf
    [] token \in DOMAIN Tenths -> Dec(Tenths[token], 1)
    [] OTHER -> NaN

\* String(x), as Array.prototype.join writes a number
FormatNumber(x) ==
  CASE x = FromInt(3) -> "3"
    [] x = FromInt(-1) -> "-1"
    [] x = Zero -> "0"
    [] x = PosInf -> "Infinity"
    [] x = NegInf -> "-Infinity"
    [] OTHER -> "NaN"

Digits == <<"0", "1", "2", "3", "4", "5", "6", "7", "8", "9">>
\* `${n}` for an integer n >= 0
RECURSIVE Numeral(_)
Numeral(n) == IF n < 10 THEN Digits[n + 1] ELSE Numeral(n \div 10) \o Digits[(n % 10) + 1]

OnlyNWarning(n) ==
  "Warning: Only " \o Numeral(n) \o " data points. Results may be unreliable."

SmallSampleN == 10

\* A ParseResult; an absent error is the empty string.
ParseResult(success, data, error) == [success |-> success, data |-> data, error |-> error]

\* The finite numbers among the tokens, and how many tokens are not.
ScanTokens(tokens) ==
  FoldIdx(LAMBDA acc, i :
            LET num == ParseFloat(tokens[i])
            IN IF ~IsNaN(num) /\ IsFinite(num)
               THEN [acc EXCEPT !.numbers = Append(@, num)]
               ELSE [acc EXCEPT !.errors = @ + 1],
          [numbers |-> <<>>, errors |-> 0], 1, Len(tokens))

Flatten(seqs) == FoldIdx(LAMBDA acc, i : acc \o seqs[i], <<>>, 1, Len(seqs))

\* What parseText returns for the tokens scanned.
textResult(scan) ==
  IF Len(scan.numbers) = 0
  THEN ParseResult(FALSE, <<>>, "No valid numbers found in input")
  ELSE IF Len(scan.numbers) < SmallSampleN
  THEN ParseResult(TRUE, scan.numbers, OnlyNWarning(Len(scan.numbers)))
  ELSE ParseResult(TRUE, scan.numbers,
                   IF scan.errors > 0
                   THEN "Ignored " \o Numeral(scan.errors) \o " invalid tokens"
                   ELSE "")

parseText(text) ==
  IF Len(text) = 0 THEN ParseResult(FALSE, <<>>, "Input is empty")
  ELSE textResult(ScanTokens(Flatten([i \in 1..Len(text) |-> Cleaned(text[i])])))

\* What parseCSV returns for the numbers found.
csvResult(numbers) ==
  IF Len(numbers) = 0
  THEN ParseResult(FALSE, <<>>, "No valid numbers found in CSV")
  ELSE IF Len(numbers) < SmallSampleN
  THEN ParseResult(TRUE, numbers, OnlyNWarning(Len(numbers)))
  ELSE ParseResult(TRUE, numbers, "")

\* lines: the lines of the file that are not blank
parseCSV(text) ==
  IF Len(SelectSeq(text, LAMBDA line : Len(line) > 0)) = 0
  THEN ParseResult(FALSE, <<>>, "CSV file is empty")
  ELSE csvResult(ScanTokens(Flatten(SelectSeq(text, LAMBDA line : Len(line) > 0))).numbers)

\* -1, 3, -1, 3, ...: a sample of finite draws.
Spread(n) == [i \in 1..n |-> FromInt(IF i % 2 = 1 THEN -1 ELSE 3)]

\* What a draw yields when Math.random() returns 0 (or, for laplaceRandom,
\* when u is -0.5): Math.log(0) is -Infinity.
NonFiniteDraws(distribution) ==
  CASE distribution = "normal" -> {PosInf, NegInf}
    [] distribution = "t" -> {PosInf, NegInf, NaN}
    [] distribution = "laplace" -> {NegInf}
    [] distribution = "mixture" -> {PosInf, NegInf}

\* The arrays generateSampleData(distribution, n) can return: finite draws
\* throughout, or one draw that is not finite.
generateSampleData(distribution, n) ==
  {Spread(n)} \cup
  {[Spread(n) EXCEPT ![j] = v] : j \in 1..n, v \in NonFiniteDraws(distribution)}

ValidationMinN == 3

\* A variant that lets every sample with data through.
validateDataLax(data) ==
  IF Len(data) = 0 THEN [valid |-> FALSE, error |-> "No data provided"]
  ELSE [valid |-> TRUE, error |-> ""]

validateData(data) ==
  IF Len(data) = 0 THEN [valid |-> FALSE, error |-> "No data provided"]
  ELSE IF Len(data) < ValidationMinN
  THEN [valid |-> FALSE, error |-> "Need at least 3 data points for statistical analysis"]
  ELSE IF \A i \in 1..Len(data) : Eq(data[i], data[1])
  THEN [valid |-> FALSE, error |-> "All values are identical - no variation to analyze"]
  ELSE IF \E i \in 1..Len(data) : ~IsFinite(data[i])
  THEN [valid |-> FALSE, error |-> "Data contains invalid numbers (NaN or Infinity)"]
  ELSE [valid |-> TRUE, error |-> ""]

-----------------------------------------------------------------------------
(* popup/Popup.tsx: what the handlers compute *)

DefaultAlpha == Dec(5, 2)

\* The try block of analyzeData: the core computations on data, in order.
\* Its outcome is the AnalysisResult, or the error a computation has raised.
\* The AnalysisResult, from the fits and the tests on the sample as the
\* earlier computations have left it.
coreResult(summary, normalFit, laplaceFit, ksTest, tails) ==
  Returned([summary |-> summary.val, normalFit |-> normalFit,
            laplaceFit |-> laplaceFit.val,
            tFit |-> fitStudentT(laplaceFit.data),
            jarqueBeraTest |-> jarqueBeraTest(laplaceFit.data, summary.val.skewness,
                                              summary.val.kurtosis, DefaultAlpha),
            ksTest |-> ksTest.val,
            tails |-> tails.val, data |-> tails.data],
           tails.data)

\* The computations after fitLaplace.
coreTests(summary, normalFit, laplaceFit) ==
  The({ coreResult(summary, normalFit, laplaceFit, ksTest, computeTailMetrics(ksTest.data))
        : ksTest \in {kolmogorovSmirnovTest(laplaceFit.data, normalFit.mu, normalFit.sigma,
                                            DefaultAlpha)} })

\* The try block of analyzeData: the core computations on data, in order.
\* Its outcome is the AnalysisResult, or the error a computation has raised.
runCore(data) ==
  The({ IF summary.threw THEN summary
        ELSE coreTests(summary, fitNormal(summary.data), fitLaplace(summary.data))
        : summary \in {computeSummaryStats(data)} })

-----------------------------------------------------------------------------
(* The library as a state machine: a caller holds an array, calls one entry *)
(* point on it, and is left with the returned value (or the error raised)   *)
(* and with whatever the call has done to the array.                        *)

VARIABLES
  data,       \* the array a caller of the library holds
  op,         \* the entry point the caller has called ("none" before the call)
  ret,        \* what the call returned, or the error it raised
  inputText,  \* popup state: the text area
  result,     \* popup state: the stored AnalysisResult, or null
  error,      \* popup state: the error message ("" for none)
  warning,    \* popup state: the warning message ("" for none)
  reading,    \* the files whose FileReader has not fired onload yet
  analysed,   \* the sample the latest handler run has passed to analyzeData
  coreArg,    \* the sample the core computations were last invoked on
  coreMemo,   \* the outcome of the core computations on the samples of the
              \* popup's inputs (pure functions of the sample, computed once)
  search,     \* the locals of a running goldenSectionSearch
  pc          \* the statement that goldenSectionSearch is at ("none" outside it)

libVars == <<data, op, ret>>
popupVars == <<inputText, result, error, warning, reading, analysed, coreArg>>
vars ==
  <<data, op, ret, inputText, result, error, warning, reading, analysed, coreArg, coreMemo,
    search, pc>>

MaxLen == 4
Vals == {FromInt(-1), FromInt(0), FromInt(3)}
SmallSamples == UNION {[1..n -> Vals] : n \in 0..MaxLen}

\* 1, 2, ..., n and -n, ..., -2, -1: ascending samples with a positive upper
\* tail and a negative lower tail.
Ramp(n) == [i \in 1..n |-> FromInt(i)]
NegRamp(n) == [i \in 1..n |-> FromInt(i - n - 1)]
\* -1, 1, -1, 1, ...
Alternating(n) == [i \in 1..n |-> FromInt(IF i % 2 = 1 THEN -1 ELSE 1)]

RampSpread == 2
RampLens == (HillMinK * 5 - RampSpread)..(HillMinK * 5 + RampSpread)
AdLongN == 320
MidSamples ==
  {Ramp(n) : n \in RampLens} \cup {NegRamp(n) : n \in RampLens}
    \cup {Alternating(n) : n \in RampLens} \cup {Alternating(AdLongN)}
LongSamples == {Alternating(SwMaxN), Alternating(SwMaxN + 1)}
\* v/10, ..., v/10, v/10 + 1: an ascending sample whose smallest values are
\* tied at a decimal fraction.
Tied(v, n) == [i \in 1..n |-> IF i < n THEN Dec(v, 1) ELSE Dec(v + 10, 1)]
TiedSamples == {Tied(-17, MaxLen), Tied(13, MaxLen)}
\* 1, h, ..., h with h = 3 * 2^(MaxExp - 1) (about 1.35e308): an ascending
\* sample of finite values whose sums are beyond the largest finite number.
Huge(n) == [i \in 1..n |-> IF i = 1 THEN One ELSE Round(3, MaxExp - 1)]
HugeSamples == {Huge(MaxLen)}
\* -1, 2, -1, 3: a series that reverts, but not at every step.
RevertingSamples == {<<FromInt(-1), FromInt(2), FromInt(-1), FromInt(3)>>}
Samples ==
  SmallSamples \cup MidSamples \cup LongSamples \cup TiedSamples \cup HugeSamples
    \cup RevertingSamples

Alphas == {Dec(5, 2), Dec(1, 2)}
MaxLags == {-1, 0, 1, 2, DefaultMaxLag}
\* The smallest positive number and the largest number below 1.
Tiny == Round(1, MinExp)
BelowOne == Round(TwoP - 1, -Precision)
NonNumbers == {NaN, PosInf, NegInf}
ErfInvArgs ==
  {FromInt(-2), Neg(Round(HalfP + 1, 1 - Precision)), FromInt(-1), Neg(BelowOne), Neg(Half),
   Neg(Tiny), Zero, Tiny, Dec(1, 5), Half, BelowOne, One, Round(HalfP + 1, 1 - Precision),
   FromInt(2)} \cup NonNumbers
Probabilities ==
  {FromInt(-1), Neg(Tiny), Zero, Tiny, Dec(1, 5), Dec(25, 3), Half, Dec(975, 3), BelowOne, One,
   FromInt(2)} \cup NonNumbers
DegreesOfFreedom ==
  {FromInt(-1), Zero, Tiny, One, FromInt(5), FromInt(TInvNormalDf),
   FromInt(TInvNormalDf + 1), PosInf, NaN}
IsSorted(arr) == {i \in 1..(Len(arr) - 1) : ~Le(arr[i], arr[i + 1])} = {}
\* The samples of length SwMaxN and beyond are for shapiroWilkTest alone.
Short(arr) == Len(arr) <= AdLongN

NoRet == [threw |-> FALSE, val |-> Null]

NoSample == [called |-> FALSE, data |-> <<>>]
\* No goldenSectionSearch is running.
NoSearch == [f |-> "none"]
Sample(d) == [called |-> TRUE, data |-> d]

\* The popup as mounted: the initial values of its useState hooks.
PopupMounted ==
  /\ inputText = <<>>
  /\ result = Null
  /\ error = ""
  /\ warning = ""
  /\ reading = {}
  /\ analysed = NoSample
  /\ coreArg = NoSample

Init ==
  /\ data \in Samples
  /\ op = "none"
  /\ ret = NoRet
  /\ PopupMounted
  /\ coreMemo = <<>>
  /\ search = NoSearch
  /\ pc = "none"

\* The caller's state after a call that came back with outcome r.
Called(name, r) ==
  \E out \in {r} :
    /\ op' = name
    /\ ret' = [threw |-> out.threw, val |-> out.val]
    /\ data' = out.data
    /\ UNCHANGED <<popupVars, coreMemo, search, pc>>

CallComputeSummaryStats ==
  /\ op = "none" /\ Short(data)
  /\ Called("computeSummaryStats", computeSummaryStats(data))

CallFitNormal ==
  /\ op = "none" /\ Short(data)
  /\ Called("fitNormal", Returned(fitNormal(data), data))

\* The search is run on the samples shorter than AdLongN.
CallFitStudentT ==
  /\ op = "none" /\ Len(data) < AdLongN
  /\ Called("fitStudentT", Returned(fitStudentT(data), data))

CallFitLaplace ==
  /\ op = "none" /\ Short(data) /\ Len(data) > 0
  /\ Called("fitLaplace", fitLaplace(data))

\* jarqueBeraTest(data, summary.skewness, summary.kurtosis, alpha)
\* The call of jarqueBeraTest with the moments of the summary record.
jarqueBeraOf(d, summary, alpha) ==
  Returned(jarqueBeraTest(d, summary.skewness, summary.kurtosis, alpha), d)

CallJarqueBeraTest ==
  /\ op = "none" /\ Short(data) /\ Len(data) > 0
  /\ \E alpha \in Alphas, summary \in {computeSummaryStats(data).val} :
       Called("jarqueBeraTest", jarqueBeraOf(data, summary, alpha))

\* kolmogorovSmirnovTest(data, normalFit.params.mu, normalFit.params.sigma, alpha)
kolmogorovSmirnovOf(d, normalFit, alpha) ==
  kolmogorovSmirnovTest(d, normalFit.mu, normalFit.sigma, alpha)

CallKolmogorovSmirnovTest ==
  /\ op = "none" /\ Short(data)
  /\ \E alpha \in Alphas, normalFit \in {fitNormal(data)} :
       Called("kolmogorovSmirnovTest", kolmogorovSmirnovOf(data, normalFit, alpha))

\* andersonDarlingTest(data, normalFit.params.mu, normalFit.params.sigma, alpha)
andersonDarlingOf(d, normalFit, alpha) ==
  andersonDarlingTest(d, normalFit.mu, normalFit.sigma, alpha)

CallAndersonDarlingTest ==
  /\ op = "none" /\ Short(data)
  /\ \E alpha \in Alphas, normalFit \in {fitNormal(data)} :
       Called("andersonDarlingTest", andersonDarlingOf(data, normalFit, alpha))

CallShapiroWilkTest ==
  /\ op = "none"
  /\ \E alpha \in Alphas : Called("shapiroWilkTest", shapiroWilkTest(data, alpha))

CallComputeTailMetrics ==
  /\ op = "none" /\ Short(data)
  /\ Called("computeTailMetrics", computeTailMetrics(data))

CallComputeHillIndex ==
  /\ op = "none" /\ Short(data) /\ IsSorted(data)
  /\ Called("computeHillIndex", Returned(computeHillIndex(data), data))

CallComputeLeftTailIndex ==
  /\ op = "none" /\ Short(data) /\ IsSorted(data)
  /\ Called("computeLeftTailIndex", Returned(computeLeftTailIndex(data), data))

CallComputeMaxDrawdown ==
  /\ op = "none" /\ Short(data)
  /\ Called("computeMaxDrawdown", Returned(computeMaxDrawdown(data), data))

CallComputeTimeSeriesDiagnostics ==
  /\ op = "none" /\ Short(data)
  /\ Called("computeTimeSeriesDiagnostics",
            computeTimeSeriesDiagnostics(data, DefaultMaxLag, DefaultRollingWindow))

\* The special functions take no array: they are called here by a caller
\* that holds none.
CallErfInv ==
  /\ op = "none" /\ Len(data) = 0
  /\ \E x \in ErfInvArgs :
       Called("erfInv", Returned([x |-> x, value |-> erfInv(x)], data))

CallNormInv ==
  /\ op = "none" /\ Len(data) = 0
  /\ \E p \in Probabilities :
       Called("normInv", Returned([p |-> p, value |-> normInv(p)], data))

CallTInv ==
  /\ op = "none" /\ Len(data) = 0
  /\ \E p \in Probabilities, df \in DegreesOfFreedom :
       Called("tInv", Returned([p |-> p, df |-> df, out |-> tInv(p, df)], data))

\* The outcome of computePACF(d, maxLag) for a caller that keeps maxLag.
pacfCall(d, maxLag, r) ==
  IF r.threw THEN Thrown("TypeError", d)
  ELSE Returned([maxLag |-> maxLag, pacf |-> r.pacf], d)

CallComputePACF ==
  /\ op = "none" /\ Short(data)
  /\ \E maxLag \in MaxLags :
       Called("computePACF", pacfCall(data, maxLag, computePACF(data, maxLag)))

Next ==
  \/ CallComputeSummaryStats
  \/ CallFitNormal
  \/ CallFitLaplace
  \/ CallFitStudentT
  \/ CallJarqueBeraTest
  \/ CallKolmogorovSmirnovTest
  \/ CallAndersonDarlingTest
  \/ CallShapiroWilkTest
  \/ CallComputeTailMetrics
  \/ CallComputeHillIndex
  \/ CallComputeLeftTailIndex
  \/ CallComputeMaxDrawdown
  \/ CallComputeTimeSeriesDiagnostics
  \/ CallComputePACF
  \/ CallErfInv
  \/ CallNormInv
  \/ CallTInv

Spec == Init /\ [][Next]_vars

-----------------------------------------------------------------------------
(* Properties of the library *)

TestOps == {"jarqueBeraTest", "kolmogorovSmirnovTest", "andersonDarlingTest",
            "shapiroWilkTest"}
\* A call of one of the four tests has come back with a StatisticalTest record.
TestReturned == op \in TestOps /\ ~ret.threw /\ ret.val # Null

InUnitInterval(x) == ~IsNaN(x) /\ Ge(x, Zero) /\ Le(x, One)

\* C1: every StatisticalTest record returned by jarqueBeraTest,
\* kolmogorovSmirnovTest, andersonDarlingTest or shapiroWilkTest has
\* rejectNull equal to (pValue < alpha), for the pValue stored in that record.
C1_RejectNullIsPValueBelowAlpha ==
  TestReturned => (ret.val.rejectNull <=> Lt(ret.val.pValue, ret.val.alpha))

\* C2: the pValue stored in every StatisticalTest record returned by the four
\* tests is a number in [0, 1]: not below 0, not above 1, not NaN.
C2_PValueInUnitInterval ==
  TestReturned => InUnitInterval(ret.val.pValue)

\* C3: for every non-empty sample the record returned by computeSummaryStats
\* has min <= p5 <= p25 <= median <= p75 <= p95 <= max, and p50 = median.
C3_QuantilesOrdered ==
  (op = "computeSummaryStats" /\ Len(data) >= 1) =>
    LET r == ret.val
    IN /\ Le(r.min, r.p5) /\ Le(r.p5, r.p25) /\ Le(r.p25, r.median)
       /\ Le(r.median, r.p75) /\ Le(r.p75, r.p95) /\ Le(r.p95, r.max)
       /\ r.p50 = r.median

SummaryStatsFields ==
  {"count", "mean", "variance", "stdDev", "median", "skewness", "kurtosis",
   "min", "max", "p5", "p25", "p50", "p75", "p95"}

\* C4: computeSummaryStats on an empty sample fails with its error and returns
\* no record (no default values take its place); on a sample of length >= 1
\* it returns a SummaryStats record and does not fail.
C4_EmptySampleFails ==
  op = "computeSummaryStats" =>
    IF Len(data) = 0
    THEN ret.threw /\ ret.val = [message |-> "Cannot compute statistics on empty data"]
    ELSE ~ret.threw /\ DOMAIN ret.val = SummaryStatsFields /\ ret.val.count = Len(data)

C4_Witness == op = "computeSummaryStats" /\ Len(data) = 0 /\ ret.threw

CopyingEntryPoints ==
  {"computeSummaryStats", "fitLaplace", "kolmogorovSmirnovTest", "andersonDarlingTest",
   "shapiroWilkTest", "computeTailMetrics", "computeTimeSeriesDiagnostics"}

\* C5: computeSummaryStats, fitLaplace, kolmogorovSmirnovTest,
\* andersonDarlingTest, shapiroWilkTest, computeTailMetrics and
\* computeTimeSeriesDiagnostics leave the array passed in with the same
\* elements in the same order.
C5_InputNotMutated ==
  [][op' \in CopyingEntryPoints => data' = data]_vars

\* A sorting entry point has returned to a caller whose array is not in order.
C5_Witness ==
  /\ op \in {"computeSummaryStats", "fitLaplace", "kolmogorovSmirnovTest",
             "andersonDarlingTest", "shapiroWilkTest", "computeTailMetrics"}
  /\ ~ret.threw /\ ret.val # Null
  /\ ~IsSorted(data)

HillOps == {"computeHillIndex", "computeLeftTailIndex"}

\* C7: computeHillIndex and computeLeftTailIndex return NaN for every sorted
\* sample whose capped k is below 5, the capped k is below 5 exactly for the
\* lengths n < 25, and they return it without reading any sample element.
C7_SmallSampleHillIsNaN ==
  op \in HillOps =>
    /\ \A n \in 0..AdLongN : hillKActual(n) < 5 <=> n < 25
    /\ Len(data) < 25 => IsNaN(ret.val.val) /\ ret.val.reads = {}

\* The estimator has declined the longest sample it declines.
C7_Witness ==
  op = "computeHillIndex" /\ Len(data) = 24 /\ IsNaN(ret.val.val) /\ ret.val.reads = {}

TimeSeriesFields ==
  {"acf", "pacf", "rollingMean", "rollingStd", "squaredReturns", "ar1Phi", "ar1TStat",
   "ar1RSquared", "ar1Stationary", "adfStatistic", "adfPValue", "adfStationarity"}

\* C8: computeTimeSeriesDiagnostics with the default maxLag and rollingWindow
\* completes without raising for every sample length: for n < 3 the AR(1) fit
\* is phi = tStat = rSquared = NaN and not stationary, for n < 4 the ADF
\* statistic and p-value are NaN, and the ACF, PACF, rolling and
\* squared-return outputs are in the same result (possibly empty).
C8_TimeSeriesNeverRaises ==
  op = "computeTimeSeriesDiagnostics" =>
    /\ ~ret.threw
    /\ DOMAIN ret.val = TimeSeriesFields
    /\ Len(data) < 3 =>
         /\ IsNaN(ret.val.ar1Phi) /\ IsNaN(ret.val.ar1TStat) /\ IsNaN(ret.val.ar1RSquared)
         /\ ret.val.ar1Stationary = FALSE
    /\ Len(data) < 4 => IsNaN(ret.val.adfStatistic) /\ IsNaN(ret.val.adfPValue)
    /\ Len(ret.val.acf) = IF Len(data) > 20 THEN 20 ELSE IF Len(data) = 0 THEN 0
                          ELSE Len(data) - 1
    /\ Len(ret.val.pacf) >= 0
    /\ Len(ret.val.rollingMean) = IF Len(data) >= 20 THEN Len(data) - 19 ELSE 0
    /\ Len(ret.val.rollingStd) = Len(ret.val.rollingMean)
    /\ Len(ret.val.squaredReturns) = Len(data)

\* Three observations: the AR(1) fit is computed, the ADF test is not, and the
\* correlograms and squared returns are there.
C8_Witness ==
  /\ op = "computeTimeSeriesDiagnostics" /\ Len(data) = 3 /\ ~ret.threw
  /\ ~IsNaN(ret.val.ar1Phi) /\ IsNaN(ret.val.adfStatistic)
  /\ Len(ret.val.acf) = 2 /\ Len(ret.val.squaredReturns) = 3

\* C9: shapiroWilkTest returns null if and only if the sample length is below
\* 3 or above 5000; for 3 <= n <= 5000 it returns a StatisticalTest record
\* named 'Shapiro-Wilk'.
C9_ShapiroWilkRange ==
  op = "shapiroWilkTest" =>
    /\ ret.val = Null <=> (Len(data) < 3 \/ Len(data) > 5000)
    /\ (3 <= Len(data) /\ Len(data) <= 5000) =>
         /\ DOMAIN ret.val = {"name", "statistic", "pValue", "rejectNull", "alpha"}
         /\ ret.val.name = "Shapiro-Wilk"

\* The longest sample the test accepts has been tested.
C9_Witness ==
  op = "shapiroWilkTest" /\ Len(data) = 5000 /\ ret.val # Null
    /\ ret.val.name = "Shapiro-Wilk"

\* C10: for every non-empty sample the tail metrics returned by
\* computeTailMetrics satisfy |var99| >= |var95|.
C10_Var99MagnitudeAtLeastVar95 ==
  (op = "computeTailMetrics" /\ Len(data) >= 1) =>
    Ge(Abs(ret.val.var99), Abs(ret.val.var95))

\* C11: whenever the tail index floor((1 - confidence) * n) of a non-empty
\* sorted sample is 0, computeCVaR returns the value computeVaR returns at
\* that confidence level (here at the two levels of computeTailMetrics).
C11_CVaREqualsVaRAtTailIndexZero ==
  (op = "computeTailMetrics" /\ Len(data) >= 1) =>
    /\ varIndex(Len(data), Confidence95) = 0 => Eq(ret.val.cvar95, ret.val.var95)
    /\ varIndex(Len(data), Confidence99) = 0 => Eq(ret.val.cvar99, ret.val.var99)

\* C12: for every non-empty sample the tail metrics returned by
\* computeTailMetrics satisfy cvar95 >= var95 and cvar99 >= var99.
C12_CVaRAtLeastVaR ==
  (op = "computeTailMetrics" /\ Len(data) >= 1) =>
    /\ Ge(ret.val.cvar95, ret.val.var95)
    /\ Ge(ret.val.cvar99, ret.val.var99)

\* The number of lags 1..min(maxLag, n - 1).
LagCount(n, maxLag) == IntMax(0, IntMin(maxLag, n - 1))

\* C13: for every series and maxLag computePACF returns as many points as
\* computeACF, one for each of the lags 1..min(maxLag, n - 1) in order (none
\* when the ACF is empty), and the value of its lag-1 point is the value of
\* the lag-1 point of computeACF.
C13_PACFMatchesACF ==
  op = "computePACF" =>
    /\ ~ret.threw
    /\ Len(ret.val.pacf) = Len(computeACF(data, ret.val.maxLag))
    /\ Len(ret.val.pacf) = LagCount(Len(data), ret.val.maxLag)
    /\ \A k \in 1..Len(ret.val.pacf) : ret.val.pacf[k].lag = k
    /\ Len(ret.val.pacf) >= 1 =>
         ret.val.pacf[1].value = computeACF(data, ret.val.maxLag)[1].value

\* The recursion has gone beyond lag 1 and was stopped by maxLag, on a series
\* that is correlated at lag 1.
C13_Witness ==
  /\ op = "computePACF" /\ ~ret.threw
  /\ ret.val.maxLag = 2 /\ Len(data) > 3 /\ Len(ret.val.pacf) = 2
  /\ IsFinite(ret.val.pacf[1].value) /\ ret.val.pacf[1].value # Zero
  /\ ret.val.pacf[1].value = computeACF(data, 2)[1].value

\* C14: for every non-empty sample fitNormal's mu is sum(x) / n and is the
\* mean of computeSummaryStats (Welford's recurrence), and its sigma satisfies
\* n * sigma^2 = (n - 1) * computeSummaryStats(sample).variance.
C14_NormalFitMatchesSummary ==
  (op = "fitNormal" /\ Len(data) >= 1) =>
    /\ Eq(ret.val.mu, Div(SumSeq(data), FromInt(Len(data))))
    /\ Eq(ret.val.mu, computeSummaryStats(data).val.mean)
    /\ Eq(Mul(FromInt(Len(data)), Mul(ret.val.sigma, ret.val.sigma)),
          Mul(FromInt(Len(data) - 1), computeSummaryStats(data).val.variance))

\* C15: for every non-empty sample fitLaplace's location mu (computeMedian
\* of the sorted copy) is the median reported by computeSummaryStats
\* (quantile(sorted, 0.5)).
C15_LaplaceLocationIsSummaryMedian ==
  (op = "fitLaplace" /\ Len(data) >= 1) =>
    Eq(ret.val.mu, computeSummaryStats(data).val.median)

\* erfInv(x) is NaN exactly when x < -1 or x > 1, and is -Infinity, 0 and
\* +Infinity at -1, 0 and 1.
ErfInvDomain(x, value) ==
  /\ IsNaN(value) <=> (Lt(x, FromInt(-1)) \/ Gt(x, One))
  /\ Eq(x, FromInt(-1)) => value = NegInf
  /\ Eq(x, Zero) => value = Zero
  /\ Eq(x, One) => value = PosInf

\* normInv(p) is NaN exactly when p <= 0 or p >= 1.
NormInvDomain(p, value) == IsNaN(value) <=> (Le(p, Zero) \/ Ge(p, One))

\* tInv(p, df) is NaN when p <= 0, p >= 1 or df <= 0, and otherwise returns
\* normInv(p) exactly when df > 100.
TInvDomain(p, df, out) ==
  IF Le(p, Zero) \/ Ge(p, One) \/ Le(df, Zero)
  THEN IsNaN(out.value) /\ ~out.delegated
  ELSE /\ out.delegated <=> Gt(df, FromInt(TInvNormalDf))
       /\ out.delegated => out.value = normInv(p)

\* C18 as stated: for every argument, NaN included, erfInv returns NaN
\* exactly for x < -1 or x > 1 (and -Infinity, 0, +Infinity at -1, 0, 1),
\* normInv returns NaN exactly for p <= 0 or p >= 1, and tInv returns NaN
\* for p <= 0, p >= 1 or df <= 0 and otherwise delegates to normInv exactly
\* when df > 100; none of them raises.
C18_OutOfDomainIsNaN ==
  /\ op = "erfInv" => ~ret.threw /\ ErfInvDomain(ret.val.x, ret.val.value)
  /\ op = "normInv" => ~ret.threw /\ NormInvDomain(ret.val.p, ret.val.value)
  /\ op = "tInv" => ~ret.threw /\ TInvDomain(ret.val.p, ret.val.df, ret.val.out)

\* C18 amended: the same for every argument that is a number (infinite ones
\* included); for the argument NaN, which satisfies none of the comparisons,
\* erfInv and normInv return NaN all the same.
C18_OutOfDomainIsNaNForNumbers ==
  /\ op = "erfInv" =>
       /\ ~ret.threw
       /\ IF IsNaN(ret.val.x) THEN IsNaN(ret.val.value)
          ELSE ErfInvDomain(ret.val.x, ret.val.value)
  /\ op = "normInv" =>
       /\ ~ret.threw
       /\ IF IsNaN(ret.val.p) THEN IsNaN(ret.val.value)
          ELSE NormInvDomain(ret.val.p, ret.val.value)
  /\ op = "tInv" => ~ret.threw /\ TInvDomain(ret.val.p, ret.val.df, ret.val.out)

\* erfInv has been called just above its domain and has returned NaN.
C18_Witness ==
  /\ op = "erfInv" /\ ~ret.threw
  /\ IsFinite(ret.val.x) /\ Gt(ret.val.x, One) /\ Lt(ret.val.x, Two)
  /\ IsNaN(ret.val.value)

\* pValue is the bucket of the table that statistic selects.
AdfBucket(statistic, pValue) ==
  IF Lt(statistic, Dec(-351, 2)) THEN Eq(pValue, Dec(5, 3))
  ELSE IF Lt(statistic, Dec(-289, 2)) THEN Eq(pValue, Dec(3, 2))
  ELSE IF Lt(statistic, Dec(-258, 2)) THEN Eq(pValue, Dec(8, 2))
  ELSE Eq(pValue, Dec(15, 2))

\* stationarity is the class that pValue selects.
AdfClass(pValue, stationarity) ==
  IF Lt(pValue, Dec(5, 2)) THEN stationarity = "stationary"
  ELSE IF Lt(pValue, Dec(10, 2)) THEN stationarity = "marginal"
  ELSE stationarity = "non-stationary"

\* C21 as stated: for every series, those of fewer than 4 points included,
\* the pValue of adfTest is the bucket that its statistic selects (0.005
\* below -3.51, 0.03 below -2.89, 0.08 below -2.58, 0.15 otherwise) and its
\* classification is 'stationary' for pValue < 0.05, 'marginal' for pValue <
\* 0.10 and 'non-stationary' otherwise.
C21_AdfBucketsAndClasses ==
  (op = "computeTimeSeriesDiagnostics" /\ ~ret.threw) =>
    /\ AdfBucket(ret.val.adfStatistic, ret.val.adfPValue)
    /\ AdfClass(ret.val.adfPValue, ret.val.adfStationarity)

\* C21 amended: the two relations hold for every series of 4 points or more;
\* for a shorter series adfTest returns statistic NaN, pValue NaN and the
\* classification 'marginal', which is not the class of that pValue.
C21_AdfBucketsAndClassesFromFour ==
  (op = "computeTimeSeriesDiagnostics" /\ ~ret.threw) =>
    IF Len(data) < AdfMinN
    THEN /\ IsNaN(ret.val.adfStatistic) /\ IsNaN(ret.val.adfPValue)
         /\ ret.val.adfStationarity = "marginal"
    ELSE /\ AdfBucket(ret.val.adfStatistic, ret.val.adfPValue)
         /\ AdfClass(ret.val.adfPValue, ret.val.adfStationarity)

\* A series of four points or more has been classified 'marginal' with the
\* pValue 0.08.
C21_Witness ==
  /\ op = "computeTimeSeriesDiagnostics" /\ ~ret.threw /\ Len(data) >= AdfMinN
  /\ ret.val.adfPValue = Dec(8, 2) /\ ret.val.adfStationarity = "marginal"
  /\ Lt(ret.val.adfStatistic, Dec(-258, 2)) /\ ~Lt(ret.val.adfStatistic, Dec(-289, 2))

\* Phi clamped away from 0 and 1 by 1e-10.
AdClamped(phi) == MathMax(AdLogFloor, MathMin(Sub(One, AdLogFloor), phi))

\* The adjusted A^2 of the formula that pairs the i-th order statistic with
\* the (n+1-i)-th: -n - (1/n) * sum of (2i-1) * (ln Phi(z_i) + ln(1 - Phi(z_(n+1-i)))),
\* times (1 + 0.75 / n + 2.25 / (n * n)).
AdPaired(sorted, mu, sigma, nf) ==
  Mul(Sub(Neg(nf),
          Div(FoldIdx(LAMBDA acc, i :
                        The({ Add(acc, Mul(FromInt(2 * i - 1),
                                           Add(Ln(AdClamped(phi)),
                                               Ln(AdClamped(Sub(One, mirror))))))
                              : phi \in {normCDF(Div(Sub(sorted[i], mu), sigma))},
                                mirror \in {normCDF(Div(Sub(sorted[Len(sorted) + 1 - i], mu),
                                                        sigma))} }),
                      Zero, 1, Len(sorted)),
              nf)),
      Add(Add(One, Div(Dec(75, 2), nf)), Div(Dec(225, 2), Mul(nf, nf))))

\* C22: the statistic of andersonDarlingTest is that of A^2 = -n - (1/n) *
\* sum over i = 1..n of (2i-1) * (ln Phi(z_i) + ln(1 - Phi(z_(n+1-i)))) on the
\* ascending standardized order statistics (adjusted for estimated
\* parameters): the second logarithm of the i-th summand is taken at the
\* (n+1-i)-th order statistic.
C22_AndersonDarlingPairsMirrored ==
  (op = "andersonDarlingTest" /\ Len(data) >= 1) =>
    /\ ~ret.threw
    /\ ret.val.statistic =
         AdPaired(SortAsc(data), fitNormal(data).mu, fitNormal(data).sigma,
                  FromInt(Len(data)))

\* F_i = normCDF((x_i - mu) / sigma) at the ascending sorted points, i = 1..n.
KsTheoretical(sorted, mu, sigma) ==
  [i \in 1..Len(sorted) |-> normCDF(Div(Sub(sorted[i], mu), sigma))]

\* 0 with the differences i/n - F_i, and 0 with the differences F_i - (i-1)/n.
KsPlus(F, n) == {Zero} \cup {Sub(Div(FromInt(i), FromInt(n)), F[i]) : i \in 1..n}
KsMinus(F, n) == {Zero} \cup {Sub(F[i], Div(FromInt(i - 1), FromInt(n))) : i \in 1..n}

\* d is the largest element of the set S of numbers.
IsMaxOf(d, S) == d \in S /\ \A t \in S : Ge(d, t)

\* d is max(D+, D-) for the theoretical values F (NaN if one of them is NaN),
\* and 1/(2n) <= d <= 1 when they are all in [0, 1].
KsStatisticOf(d, F, n) ==
  /\ IF \E i \in 1..n : IsNaN(F[i]) THEN IsNaN(d)
     ELSE IsMaxOf(d, KsPlus(F, n) \cup KsMinus(F, n))
  /\ (\A i \in 1..n : Ge(F[i], Zero) /\ Le(F[i], One)) =>
       Le(Div(One, FromInt(2 * n)), d) /\ Le(d, One)

\* C23: the statistic of kolmogorovSmirnovTest is D = max(D+, D-) with D+ =
\* max(0, max_i((i+1)/n - F_i)) and D- = max(0, max_i(F_i - i/n)) over the
\* ascending sorted points i = 0..n-1, and for every non-empty sample whose
\* F_i are all in [0, 1] it satisfies 1/(2n) <= D <= 1.
C23_KsStatisticBounds ==
  (op = "kolmogorovSmirnovTest" /\ Len(data) >= 1) =>
    /\ ~ret.threw
    /\ \E F \in {KsTheoretical(SortAsc(data), fitNormal(data).mu, fitNormal(data).sigma)} :
         KsStatisticOf(ret.val.statistic, F, Len(data))

\* A sample of several points with every F_i in [0, 1] has been tested, and
\* its statistic is D-, strictly between 1/(2n) and 1.
C23_Witness ==
  /\ op = "kolmogorovSmirnovTest" /\ Len(data) >= 3 /\ ~ret.threw
  /\ \E F \in {KsTheoretical(SortAsc(data), fitNormal(data).mu, fitNormal(data).sigma)} :
       /\ \A i \in 1..Len(data) : Ge(F[i], Zero) /\ Le(F[i], One)
       /\ ret.val.statistic \in KsMinus(F, Len(data))
       /\ ret.val.statistic \notin KsPlus(F, Len(data))
  /\ Lt(Div(One, FromInt(2 * Len(data))), ret.val.statistic)
  /\ Lt(ret.val.statistic, One)

AllIdentical(d) == Len(d) >= 1 /\ {i \in 1..Len(d) : d[i] # d[1]} = {}

\* C24: computeSummaryStats on a sample of n >= 1 values reports the variance
\* m2 / (n - 1) when n > 1 and 0 when n = 1, the skewness 0 when n < 3 or
\* stdDev = 0 and the kurtosis 0 when n < 4 or stdDev = 0; on a sample whose
\* values are all the same finite number the variance, the standard
\* deviation, the skewness and the kurtosis are 0 and no field is NaN.
C24_DegenerateSampleGuards ==
  (op = "computeSummaryStats" /\ ~ret.threw) =>
    /\ ret.val.variance = IF Len(data) > 1
                          THEN Div(welfordAlgorithm(data).m2, FromInt(Len(data) - 1))
                          ELSE Zero
    /\ (Len(data) < 3 \/ Eq(ret.val.stdDev, Zero)) => ret.val.skewness = Zero
    /\ (Len(data) < 4 \/ Eq(ret.val.stdDev, Zero)) => ret.val.kurtosis = Zero
    /\ (AllIdentical(data) /\ IsFinite(data[1])) =>
         /\ ret.val.variance = Zero /\ ret.val.stdDev = Zero
         /\ ret.val.skewness = Zero /\ ret.val.kurtosis = Zero
         /\ \A f \in SummaryStatsFields \ {"count"} : ~IsNaN(ret.val[f])

C24_Witness ==
  /\ op = "computeSummaryStats" /\ ~ret.threw
  /\ Len(data) = 4 /\ AllIdentical(data) /\ data[1] = FromInt(3)
  /\ ret.val.variance = Zero /\ ret.val.kurtosis = Zero

\* No value of the cumulative path is below the one before it.
NoDecline(cumReturns) ==
  {i \in 1..(Len(cumReturns) - 1) : Lt(cumReturns[i + 1], cumReturns[i])} = {}

\* C25: computeMaxDrawdown on n >= 1 returns reports 0 <= peakIndex <=
\* troughIndex <= n, a running peak that is at least 1 after every pass of
\* its loop, maxDrawdownPercent >= 0, and the drawdown, its percentage and
\* both indices 0 when the cumulative path never declines; on no returns it
\* reports the drawdown 0 with both indices -1.
C25_MaxDrawdownIndices ==
  (op = "computeMaxDrawdown") =>
    IF Len(data) = 0
    THEN /\ ret.val.maxDrawdown = Zero /\ ret.val.maxDrawdownPercent = Zero
         /\ ret.val.peakIndex = -1 /\ ret.val.troughIndex = -1
    ELSE /\ 0 <= ret.val.peakIndex /\ ret.val.peakIndex <= ret.val.troughIndex
         /\ ret.val.troughIndex <= Len(data)
         /\ Ge(ret.val.maxDrawdownPercent, Zero)
         /\ \A cumReturns \in {cumulativeReturns(data)} :
              /\ Len(cumReturns) = Len(data) + 1
              /\ \A last \in 1..Len(data) :
                   Ge(drawdownLoop(cumReturns, last).runningMax, One)
              /\ NoDecline(cumReturns) =>
                   /\ ret.val.maxDrawdown = Zero /\ ret.val.maxDrawdownPercent = Zero
                   /\ ret.val.peakIndex = 0 /\ ret.val.troughIndex = 0

\* A drawdown from a peak that is not the start of the path.
C25_Witness ==
  /\ op = "computeMaxDrawdown" /\ Len(data) >= 2
  /\ ret.val.peakIndex >= 1 /\ ret.val.troughIndex > ret.val.peakIndex
  /\ Gt(ret.val.maxDrawdownPercent, Zero)

\* The search fitStudentT runs on the sample d.
NuSearchOf(d) ==
  The({ studentTNuSearch(standardize(d, normalFit.mu, normalFit.sigma))
        : normalFit \in {fitNormal(d)} })

\* Every bracket has its lower end below its upper end and inside
\* [NuLower, NuUpper], and from one bracket to the next the lower end does
\* not go down and the upper end does not go up.
BracketsNarrow(brackets) ==
  /\ \A k \in 1..Len(brackets) :
       /\ Lt(brackets[k][1], brackets[k][2])
       /\ Ge(brackets[k][1], FromInt(NuLower)) /\ Le(brackets[k][2], FromInt(NuUpper))
  /\ \A k \in 1..(Len(brackets) - 1) :
       /\ Ge(brackets[k + 1][1], brackets[k][1])
       /\ Le(brackets[k + 1][2], brackets[k][2])

\* C26: for every sample the degrees of freedom that the search of
\* fitStudentT finds are in [2, 50], the brackets of the search only narrow
\* with the lower end below the upper end, the nu reported is that value
\* rounded to one decimal place, and the mu reported is the mu of fitNormal.
C26_StudentTNuInBracket ==
  (op = "fitStudentT") =>
    \A found \in {NuSearchOf(data)} :
      /\ found.returned
      /\ Ge(found.value, FromInt(NuLower)) /\ Le(found.value, FromInt(NuUpper))
      /\ BracketsNarrow(found.brackets)
      /\ ret.val.nu = Div(MathRound(Mul(found.value, FromInt(10))), FromInt(10))
      /\ Le(Abs(Sub(ret.val.nu, found.value)), Dec(1, 1))
      /\ ret.val.mu = fitNormal(data).mu

\* A search on a sample with spread that has moved both ends of the bracket.
C26_Witness ==
  /\ op = "fitStudentT" /\ Len(data) >= 3 /\ ~AllIdentical(data)
  /\ \E found \in {NuSearchOf(data)} :
       /\ Len(found.brackets) >= 10
       /\ Gt(found.brackets[Len(found.brackets)][1], FromInt(NuLower))
       /\ Lt(found.brackets[Len(found.brackets)][2], FromInt(NuUpper))

\* C27: for every series that is not constant, every point that computeACF
\* returns (lags 1..min(maxLag, n - 1)) has -1 <= value <= 1.
C27_AcfWithinUnitInterval ==
  (op = "computeTimeSeriesDiagnostics" /\ ~ret.threw /\ ~AllIdentical(data)) =>
    /\ Len(ret.val.acf) = IntMax(0, IntMin(DefaultMaxLag, Len(data) - 1))
    /\ \A l \in 1..Len(ret.val.acf) :
         /\ Ge(ret.val.acf[l].value, FromInt(-1))
         /\ Le(ret.val.acf[l].value, One)

\* C28: for every series of n >= 3 values whose lagged values (all but the
\* last) are not all equal, the rSquared that fitAR1 reports is in [0, 1].
C28_Ar1RSquaredInUnitInterval ==
  (/\ op = "computeTimeSeriesDiagnostics" /\ ~ret.threw
   /\ Len(data) >= Ar1MinN /\ ~AllIdentical(SubSeq(data, 1, Len(data) - 1))) =>
    /\ Ge(ret.val.ar1RSquared, Zero)
    /\ Le(ret.val.ar1RSquared, One)

\* C29: for every sample of SwMinN..SwMaxN values that are not all the same,
\* the statistic W that shapiroWilkTest returns is in [0, 1], so that 1 - W,
\* whose logarithm the p-value takes, is not negative.
C29_ShapiroWilkWInUnitInterval ==
  (/\ op = "shapiroWilkTest" /\ ~ret.threw /\ ret.val # Null
   /\ Len(data) >= SwMinN /\ Len(data) <= SwMaxN /\ ~AllIdentical(data)) =>
    /\ Ge(ret.val.statistic, Zero)
    /\ Le(ret.val.statistic, One)
    /\ Ge(Sub(One, ret.val.statistic), Zero)

\* C19: for every ascending sample of n >= 25 values (so that the capped k is
\* at least 5) computeHillIndex returns a number that is not NaN and not
\* negative, the mean of ln(x_i / threshold) over the k largest values with
\* threshold the k-th largest.
C19_HillIndexNonNegative ==
  (op = "computeHillIndex" /\ Len(data) >= HillMinK * 5) =>
    /\ ~ret.threw
    /\ hillKActual(Len(data)) >= HillMinK
    /\ ret.val.val = hillOver(data, Len(data), hillKActual(Len(data))).val
    /\ Ge(ret.val.val, Zero)

-----------------------------------------------------------------------------
(* popup/Popup.tsx as a state machine: the user types or pastes a text,     *)
(* presses Analyze, uploads a CSV file (read asynchronously) or asks for a  *)
(* generated sample.                                                        *)

\* The 20 values of "Test 3: Custom Data Entry" as pasted.
Test3Text ==
  <<"1.2", "-0.5", "0.3", "2.1", "-1.0", "0.8", "-0.3", "1.5", "0.2", "-0.7",
    "1.1", "0.4", "-0.9", "1.8", "0.1", "-0.4", "1.3", "0.6", "-0.2", "0.9">>

Texts ==
  {<<>>,
   Test3Text,
   SubSeq(Test3Text, 1, SmallSampleN - 1),
   Test3Text \o <<"1e999", "...">>,
   <<"abc">>,
   <<"3", "-1">>,
   <<"3", "3", "3">>,
   <<"3", "-1", "0">>,
   <<"3", "abc", "-1", "1e999", "0">>}

Files ==
  {<<>>,
   << <<"abc", "abc">>, <<"3", "-1">>, <<"0", "NaN">> >>,
   << <<"3">>, <<"3">>, <<"3">> >>}

Distributions == {"normal", "t", "laplace", "mixture"}
\* The length of a generated sample (the popup asks for 1000).
GenN == 3
\* sampleData.slice(0, 100)
GenShown == 100

\* The samples the handlers can hand to the core computations, and the
\* outcome of the core computations on each (computed once per sample).
CoreSamples ==
  {d \in {parseText(t).data : t \in Texts} \cup {parseCSV(f).data : f \in Files}
           \cup UNION {generateSampleData(g, GenN) : g \in Distributions} :
     validateData(d).valid}
CoreResult(d) == coreMemo[d]

\* A variant that never warns.
fewPointsNever(d) == FALSE
\* if (data.length < 10)
fewPoints(d) == Len(d) < SmallSampleN

\* analyzeData(data) on the popup state ui = [result, error, warning, coreArg]:
\* the state its setState calls leave behind.
analyzeData(ui, d) ==
  LET cleared == [ui EXCEPT !.error = "", !.warning = ""]
      validation == validateData(d)
  IN IF ~validation.valid
     THEN [cleared EXCEPT
             !.error = IF validation.error # "" THEN validation.error ELSE "Invalid data"]
     ELSE LET warned == IF fewPoints(d)
                        THEN [cleared EXCEPT !.warning = OnlyNWarning(Len(d))]
                        ELSE cleared
              core == CoreResult(d)
          IN IF core.threw
             THEN [warned EXCEPT !.error = core.val.message, !.coreArg = Sample(d)]
             ELSE [warned EXCEPT !.result = core.val, !.coreArg = Sample(d)]

Ui == [result |-> result, error |-> error, warning |-> warning, coreArg |-> coreArg]

\* The handler has left the popup in state ui.
Rendered(ui) ==
  /\ result' = ui.result
  /\ error' = ui.error
  /\ warning' = ui.warning
  /\ coreArg' = ui.coreArg

\* What handleAnalyze and the onload callback do with a ParseResult.
Submitted(parseResult, fallback) ==
  IF ~parseResult.success
  THEN /\ Rendered([Ui EXCEPT !.error = IF parseResult.error # "" THEN parseResult.error
                                       ELSE fallback])
       /\ analysed' = NoSample
  ELSE /\ Rendered(analyzeData(IF parseResult.error # ""
                               THEN [Ui EXCEPT !.warning = parseResult.error]
                               ELSE Ui,
                               parseResult.data))
       /\ analysed' = Sample(parseResult.data)

\* onChange of the text area
SetInputText ==
  /\ \E t \in Texts : inputText' = t
  /\ UNCHANGED <<result, error, warning, reading, analysed, coreArg>>
  /\ UNCHANGED <<libVars, coreMemo, search, pc>>

HandleAnalyze ==
  /\ Submitted(parseText(inputText), "Failed to parse data")
  /\ UNCHANGED <<inputText, reading>>
  /\ UNCHANGED <<libVars, coreMemo, search, pc>>

\* handleFileUpload up to reader.readAsText(file)
HandleFileUpload ==
  /\ \E f \in Files : reading' = reading \cup {f}
  /\ UNCHANGED <<inputText, result, error, warning, analysed, coreArg>>
  /\ UNCHANGED <<libVars, coreMemo, search, pc>>

\* reader.onload
ReaderOnLoad ==
  /\ \E f \in reading :
       /\ reading' = reading \ {f}
       /\ Submitted(parseCSV(f), "Failed to parse CSV")
  /\ UNCHANGED inputText
  /\ UNCHANGED <<libVars, coreMemo, search, pc>>

HandleGenerateSample ==
  /\ \E g \in Distributions : \E sampleData \in generateSampleData(g, GenN) :
       /\ Rendered(analyzeData(Ui, sampleData))
       /\ analysed' = Sample(sampleData)
       /\ inputText' = [i \in 1..IntMin(GenShown, Len(sampleData)) |->
                          FormatNumber(sampleData[i])] \o <<"...">>
  /\ UNCHANGED reading
  /\ UNCHANGED <<libVars, coreMemo, search, pc>>

InitPopup ==
  /\ data = <<>>
  /\ op = "none"
  /\ ret = NoRet
  /\ PopupMounted
  /\ coreMemo = [d \in CoreSamples |-> runCore(d)]
  /\ search = NoSearch
  /\ pc = "none"

NextPopup ==
  \/ SetInputText
  \/ HandleAnalyze
  \/ HandleFileUpload
  \/ ReaderOnLoad
  \/ HandleGenerateSample

SpecPopup == InitPopup /\ [][NextPopup]_vars

-----------------------------------------------------------------------------
(* Properties of the popup *)

\* length >= 3, not all elements identical, every element finite
Accepted(d) ==
  /\ Len(d) >= 3
  /\ \E i \in 1..Len(d) : d[i] # d[1]
  /\ \A i \in 1..Len(d) : d[i].k = "fin"

\* C6: in the popup the core computations are invoked only on samples that
\* validateData accepts; validateData accepts exactly the samples of length
\* >= 3 whose elements are not all identical and are all finite; for every
\* other sample analyzeData sets a non-empty error message and does not
\* replace the stored result.
C6_CoreOnlyOnValidatedSamples ==
  /\ [](/\ coreArg.called => validateData(coreArg.data).valid /\ Accepted(coreArg.data)
        /\ analysed.called =>
             /\ validateData(analysed.data).valid <=> Accepted(analysed.data)
             /\ ~Accepted(analysed.data) => error # "")
  /\ [][(analysed'.called /\ ~Accepted(analysed'.data)) => result' = result]_vars

\* A sample that is not acceptable has been submitted while a result was
\* stored: the error is shown and the result is still there.
C6_Witness ==
  /\ analysed.called /\ ~Accepted(analysed.data)
  /\ error # "" /\ result # Null
  /\ coreArg.called /\ coreArg.data # analysed.data

\* C16: with the 20 values of the test scenario in the text area, Analyze
\* parses exactly those 20 numbers, validation passes, the stored result has
\* count = 20 and mean = 0.415 (within 0.001), no computation raises (the
\* error stays empty and a result is stored, with no warning), and the Hill
\* index of the result is NaN.
C16_Test3Scenario ==
  [][(HandleAnalyze /\ inputText = Test3Text) =>
       /\ analysed' = Sample([i \in 1..20 |-> Dec(Tenths[Test3Text[i]], 1)])
       /\ validateData(analysed'.data).valid
       /\ error' = "" /\ warning' = ""
       /\ result' # Null
       /\ result'.data = analysed'.data
       /\ result'.summary.count = 20
       /\ Le(Abs(Sub(result'.summary.mean, Dec(415, 3))), Dec(1, 3))
       /\ IsNaN(result'.tails.hillIndex)
       /\ coreArg' = analysed']_vars

\* The scenario has been analysed and its result is on display.
C16_Witness ==
  /\ inputText = Test3Text /\ analysed.called /\ Len(analysed.data) = 20
  /\ result # Null /\ result.summary.count = 20 /\ error = ""
  /\ IsNaN(result.tails.hillIndex)

\* C20: when Analyze or the load of a CSV file submits a sample of 3 <= n < 10
\* finite values that are not all identical, the handler ends with a result
\* for that sample stored (the core has been run on it), an empty error
\* message and the warning "Warning: Only n data points. Results may be
\* unreliable.".
C20_SmallSampleAnalysedWithWarning ==
  [][((HandleAnalyze \/ ReaderOnLoad)
        /\ analysed'.called /\ Accepted(analysed'.data)
        /\ Len(analysed'.data) < SmallSampleN) =>
       /\ validateData(analysed'.data).valid
       /\ coreArg' = analysed'
       /\ result' # Null /\ result'.data = analysed'.data
       /\ result'.summary.count = Len(analysed'.data)
       /\ error' = ""
       /\ warning' = OnlyNWarning(Len(analysed'.data))]_vars

\* A sample of nine values has been submitted, and its result is stored with
\* the warning and no error.
C20_Witness ==
  /\ analysed.called /\ Len(analysed.data) = SmallSampleN - 1 /\ Accepted(analysed.data)
  /\ result # Null /\ result.data = analysed.data
  /\ error = "" /\ warning = OnlyNWarning(SmallSampleN - 1)

\* parseText accepts the text with SmallSampleN or more numbers and at least
\* one token ignored.
IgnoredTokens(parseResult) ==
  /\ parseResult.success /\ Len(parseResult.data) >= SmallSampleN
  /\ parseResult.error # "" /\ SubSeq(parseResult.error, 1, 8) = "Ignored "

\* C30: when handleAnalyze runs on a text that parseText accepts with
\* SmallSampleN or more numbers and the error 'Ignored k invalid tokens', the
\* warning it leaves is that message.
C30_ParseWarningSurvives ==
  [][(HandleAnalyze /\ IgnoredTokens(parseText(inputText)))
       => warning' = parseText(inputText).error]_vars

-----------------------------------------------------------------------------
(* utils/math.ts: goldenSectionSearch statement by statement.  One step is  *)
(* the entry of the function, one pass of the while loop, or the return.    *)

Objectives == {"parabola", "flat", "bimodal", "undefined"}
\* (x - c)^2
SqDist(x, c) == The({ Mul(d, d) : d \in {Sub(x, FromInt(c))} })
\* The objective functions f of the searches: (x - 3)^2, the constant 0,
\* min((x - 3)^2, (x - 40)^2) (not unimodal), and one that returns NaN.
Objective(name, x) ==
  CASE name = "parabola" -> SqDist(x, 3)
    [] name = "flat" -> Zero
    [] name = "bimodal" ->
         The({ MathMin(near, far) : near \in {SqDist(x, 3)}, far \in {SqDist(x, 40)} })
    [] name = "undefined" -> NaN

Brackets == {<<FromInt(2), FromInt(50)>>, <<One, Two>>, <<FromInt(50), FromInt(2)>>}
Tolerances == {Dec(1, 1), One, Zero, FromInt(-1)}

\* goldenSectionSearch(f, a, b, tol) has been called.
InitGolden ==
  /\ data = <<>>
  /\ op = "none"
  /\ ret = NoRet
  /\ PopupMounted
  /\ coreMemo = <<>>
  /\ pc = "entry"
  /\ \E f \in Objectives, bracket \in Brackets, tol \in Tolerances :
       search = [f |-> f, a |-> bracket[1], b |-> bracket[2], tol |-> tol,
                 x1 |-> NaN, x2 |-> NaN, f1 |-> NaN, f2 |-> NaN, value |-> NaN]

\* Math.abs(b - a) > tol
GoldenContinues(g) ==
  The({ Gt(width, g.tol) : width \in {The({ Abs(diff) : diff \in {Sub(g.b, g.a)} })} })

\* a + resphi * (b - a) and b - resphi * (b - a)
GoldenLowerPoint(a, b) ==
  The({ The({ Add(a, step) : step \in {Mul(Resphi, width)} }) : width \in {Sub(b, a)} })
GoldenUpperPoint(a, b) ==
  The({ The({ Sub(b, step) : step \in {Mul(Resphi, width)} }) : width \in {Sub(b, a)} })

\* The statements before the loop: x1, x2, f1, f2.
GoldenEntered(g) ==
  The({ [g EXCEPT !.x1 = x1, !.x2 = x2,
                  !.f1 = Objective(g.f, x1), !.f2 = Objective(g.f, x2)]
        : x1 \in {GoldenLowerPoint(g.a, g.b)}, x2 \in {GoldenUpperPoint(g.a, g.b)} })

GoldenEnter ==
  /\ pc = "entry"
  /\ search' = GoldenEntered(search)
  /\ pc' = "while"
  /\ UNCHANGED <<libVars, popupVars, coreMemo>>

\* while (Math.abs(b - a) > tol), the condition holding
GoldenTest ==
  /\ pc = "while" /\ GoldenContinues(search)
  /\ pc' = "pass"
  /\ UNCHANGED <<libVars, popupVars, coreMemo, search>>

\* The branch f1 < f2 of a loop pass: b = x2; x2 = x1; f2 = f1; then x1, f1.
GoldenUpperMoved(g) ==
  The({ [g EXCEPT !.b = g.x2, !.x2 = g.x1, !.f2 = g.f1, !.x1 = x1,
                  !.f1 = Objective(g.f, x1)]
        : x1 \in {GoldenLowerPoint(g.a, g.x2)} })

GoldenMoveUpper ==
  /\ pc = "pass" /\ Lt(search.f1, search.f2)
  /\ search' = GoldenUpperMoved(search)
  /\ pc' = "while"
  /\ UNCHANGED <<libVars, popupVars, coreMemo>>

\* The else branch of a loop pass: a = x1; x1 = x2; f1 = f2; then x2, f2.
GoldenLowerMoved(g) ==
  The({ [g EXCEPT !.a = g.x1, !.x1 = g.x2, !.f1 = g.f2, !.x2 = x2,
                  !.f2 = Objective(g.f, x2)]
        : x2 \in {GoldenUpperPoint(g.x1, g.b)} })

GoldenMoveLower ==
  /\ pc = "pass" /\ ~Lt(search.f1, search.f2)
  /\ search' = GoldenLowerMoved(search)
  /\ pc' = "while"
  /\ UNCHANGED <<libVars, popupVars, coreMemo>>

\* return (a + b) / 2, the condition of the loop failing
GoldenReturned(g) ==
  The({ [g EXCEPT !.value = Div(sum, Two)] : sum \in {Add(g.a, g.b)} })

GoldenReturn ==
  /\ pc = "while" /\ ~GoldenContinues(search)
  /\ search' = GoldenReturned(search)
  /\ pc' = "done"
  /\ UNCHANGED <<libVars, popupVars, coreMemo>>

NextGolden ==
  \/ GoldenEnter
  \/ GoldenTest
  \/ GoldenMoveUpper
  \/ GoldenMoveLower
  \/ GoldenReturn

\* The function moves on from the statement it is at: every statement before
\* the return leads to another statement.
GoldenAdvance ==
  /\ pc \in {"entry", "while", "pass"}
  /\ \E next \in {"while", "pass", "done"} : next # pc /\ pc' = next

\* The function keeps running until it returns: it does not stay at a
\* statement for ever.
SpecGolden == InitGolden /\ [][NextGolden]_vars /\ WF_pc(GoldenAdvance)

\* The width |b - a| of the bracket of g.
Width(g) == Abs(Sub(g.b, g.a))

\* C17: goldenSectionSearch terminates for every objective, bracket and tol:
\* every loop pass leaves a strictly narrower bracket, the loop is left once
\* the width is <= tol, and the value returned is the midpoint of the final
\* bracket.
C17_GoldenSectionSearchTerminates ==
  /\ <>(pc = "done")
  /\ [][pc = "pass" => Lt(Width(search'), Width(search))]_vars
  /\ [](pc = "done" =>
          /\ Le(Width(search), search.tol)
          /\ search.value = Div(Add(search.a, search.b), Two))
====
